---- MODULE Spec2Model ----
(***************************************************************************)
(* The incremental response pipeline of OLLAP: the NDJSON stream relay     *)
(* (frontend/app/api/chat/route.ts), the stream consumer                   *)
(* (frontend/lib/streamChat.ts) and the chat turn that owns the            *)
(* accumulating message (frontend/app/chat/[sessionId]/page.tsx with       *)
(* frontend/lib/store.ts).                                                 *)
(*                                                                         *)
(* Wire text is a sequence of symbols.  A symbol is one lexical unit of    *)
(* the JSON text ("{", "}", ":", ",", a quoted string literal, null), a    *)
(* space, or the line separator.  On the byte level the literal 'eacute'   *)
(* (the string holding the one character U+00E9) is two units, cut inside  *)
(* the two-byte UTF-8 encoding of the character.  Chunk boundaries          *)
(* may fall between any two byte units, so a JSON object, and the          *)
(* multi-byte character, is cut at every place inside it.                  *)
(***************************************************************************)
EXTENDS Integers, Sequences, FiniteSets, TLC

(***************************************************************************)
(* Bounds                                                                  *)
(***************************************************************************)
MaxLines == 3          \* lines of a payload given to the relay or the consumer alone
MaxPipelineLines == 2  \* lines of a payload sent through relay and consumer
MaxChunk == 3          \* bytes of a chunk that is not the whole rest of a stream

(***************************************************************************)
(* Symbols of the wire text                                                *)
(***************************************************************************)
NL == "\n"
SP == " "

StrLit ==
  {"'type'", "'delta'", "'done'", "'tool'", "'error'", "'token'", "'name'",
   "'args'", "'message'", "'code'", "'messageId'", "'a'", "'eacute'", "''",
   "'m1'", "'generateFlashcards'", "'boom'", "'validation_error'",
   "'assistant:b'",
   "'Invalid event format from backend'"}

\* The characters of a string literal's value (String.prototype.length is
\* the length of this sequence).
StrText(lit) ==
  CASE lit = "''" -> <<>>
    [] lit = "'a'" -> <<"a">>
    [] lit = "'eacute'" -> <<"eacute">>
    [] lit = "'m1'" -> <<"m", "1">>
    [] lit = "'type'" -> <<"t", "y", "p", "e">>
    [] lit = "'done'" -> <<"d", "o", "n", "e">>
    [] lit = "'tool'" -> <<"t", "o", "o", "l">>
    [] lit = "'name'" -> <<"n", "a", "m", "e">>
    [] lit = "'args'" -> <<"a", "r", "g", "s">>
    [] lit = "'code'" -> <<"c", "o", "d", "e">>
    [] lit = "'boom'" -> <<"b", "o", "o", "m">>
    [] lit = "'delta'" -> <<"d", "e", "l", "t", "a">>
    [] lit = "'error'" -> <<"e", "r", "r", "o", "r">>
    [] lit = "'token'" -> <<"t", "o", "k", "e", "n">>
    [] lit = "'message'" -> <<"m", "e", "s", "s", "a", "g", "e">>
    [] lit = "'messageId'" -> <<"m", "e", "s", "s", "a", "g", "e", "I", "d">>
    [] lit = "'assistant:b'" ->
         <<"a", "s", "s", "i", "s", "t", "a", "n", "t", ":", "b">>
    [] lit = "'validation_error'" ->
         <<"v", "a", "l", "i", "d", "a", "t", "i", "o", "n", "_",
           "e", "r", "r", "o", "r">>
    [] lit = "'generateFlashcards'" ->
         <<"g", "e", "n", "e", "r", "a", "t", "e",
           "F", "l", "a", "s", "h", "c", "a", "r", "d", "s">>
    [] lit = "'Invalid event format from backend'" ->
         <<"I", "n", "v", "a", "l", "i", "d", " ", "e", "v", "e", "n", "t",
           " ", "f", "o", "r", "m", "a", "t", " ", "f", "r", "o", "m", " ",
           "b", "a", "c", "k", "e", "n", "d">>

(***************************************************************************)
(* JSON values.  Every value is a record of the same shape so that values  *)
(* of different kinds can be compared: kind is "obj", "str", "null" or     *)
(* "undef" (JavaScript's undefined, the value of a missing property).      *)
(* An object keeps its members in insertion order, as JavaScript does.    *)
(***************************************************************************)
StrV(lit) == [kind |-> "str", str |-> lit, members |-> <<>>]
NullV == [kind |-> "null", str |-> "", members |-> <<>>]
UndefV == [kind |-> "undef", str |-> "", members |-> <<>>]
ObjV(ms) == [kind |-> "obj", str |-> "", members |-> ms]

HasKey(v, k) == \E i \in 1..Len(v.members) : v.members[i].key = k

\* Property read v[k]: undefined when the property is absent.
Get(v, k) ==
  IF HasKey(v, k)
  THEN v.members[CHOOSE i \in 1..Len(v.members) : v.members[i].key = k].val
  ELSE UndefV

Keys(v) == {v.members[i].key : i \in 1..Len(v.members)}

\* Property write: an existing key keeps its position and takes the new
\* value, a new key is appended.
SetMember(ms, k, x) ==
  IF \E i \in 1..Len(ms) : ms[i].key = k
  THEN [i \in 1..Len(ms) |->
          IF ms[i].key = k THEN [key |-> k, val |-> x] ELSE ms[i]]
  ELSE Append(ms, [key |-> k, val |-> x])

Front(q) == SubSeq(q, 1, Len(q) - 1)
Last(q) == q[Len(q)]

(***************************************************************************)
(* JSON.parse                                                              *)
(***************************************************************************)
IsBlank(s) == \A i \in 1..Len(s) : s[i] \in {SP, NL}

\* String.prototype.trim() is non-empty
TrimNonEmpty(s) == ~IsBlank(s)

RECURSIVE SkipWs(_, _)
SkipWs(s, i) ==
  IF i <= Len(s) /\ s[i] \in {SP, NL} THEN SkipWs(s, i + 1) ELSE i

ParseFail == [ok |-> FALSE, val |-> NullV, pos |-> 0]

RECURSIVE ParseValue(_, _)
RECURSIVE ParseMembers(_, _, _)

\* Parses one JSON value starting at or after position i.
ParseValue(s, i) ==
  LET j == SkipWs(s, i) IN
  IF j > Len(s) THEN ParseFail
  ELSE IF s[j] \in StrLit THEN [ok |-> TRUE, val |-> StrV(s[j]), pos |-> j + 1]
  ELSE IF s[j] = "null" THEN [ok |-> TRUE, val |-> NullV, pos |-> j + 1]
  ELSE IF s[j] = "{" THEN
    LET k == SkipWs(s, j + 1) IN
    IF k <= Len(s) /\ s[k] = "}"
    THEN [ok |-> TRUE, val |-> ObjV(<<>>), pos |-> k + 1]
    ELSE ParseMembers(s, k, <<>>)
  ELSE ParseFail

\* Parses  key : value ( , key : value )* }  starting at position i.
ParseMembers(s, i, acc) ==
  LET k == SkipWs(s, i) IN
  IF k > Len(s) \/ s[k] \notin StrLit THEN ParseFail
  ELSE
    LET c == SkipWs(s, k + 1) IN
    IF c > Len(s) \/ s[c] # ":" THEN ParseFail
    ELSE
      LET r == ParseValue(s, c + 1) IN
      IF ~r.ok THEN ParseFail
      ELSE
        LET acc2 == SetMember(acc, s[k], r.val)
            e == SkipWs(s, r.pos)
        IN
        IF e > Len(s) THEN ParseFail
        ELSE IF s[e] = "}" THEN [ok |-> TRUE, val |-> ObjV(acc2), pos |-> e + 1]
        ELSE IF s[e] = "," THEN ParseMembers(s, e + 1, acc2)
        ELSE ParseFail

\* JSON.parse(text): ok is FALSE where JSON.parse throws a SyntaxError.
JSONparse(s) ==
  LET r == ParseValue(s, 1) IN
  IF r.ok /\ SkipWs(s, r.pos) > Len(s)
  THEN [ok |-> TRUE, val |-> r.val]
  ELSE [ok |-> FALSE, val |-> NullV]

(***************************************************************************)
(* JSON.stringify (compact form, members in insertion order)               *)
(***************************************************************************)
RECURSIVE JSONstringify(_)
RECURSIVE StringifyMembers(_, _)

StringifyMembers(ms, i) ==
  IF i > Len(ms) THEN <<>>
  ELSE (IF i > 1 THEN <<",">> ELSE <<>>)
       \o <<ms[i].key, ":">> \o JSONstringify(ms[i].val)
       \o StringifyMembers(ms, i + 1)

JSONstringify(v) ==
  CASE v.kind = "str" -> <<v.str>>
    [] v.kind = "null" -> <<"null">>
    [] v.kind = "obj" -> <<"{">> \o StringifyMembers(v.members, 1) \o <<"}">>

(***************************************************************************)
(* TextEncoder / TextDecoder.  The literal 'eacute' travels as two units:  *)
(* ELead is the opening quote with the lead byte 0xC3, ECont the           *)
(* continuation byte 0xA9 with the closing quote.  FFFDHead and FFFDTail   *)
(* are the texts a lone lead or a lone continuation decodes to (U+FFFD     *)
(* next to a quote); neither is a JSON token.                              *)
(***************************************************************************)
ELead == "'\\xC3"
ECont == "\\xA9'"
FFFDHead == "'\\uFFFD"
FFFDTail == "\\uFFFD'"

\* TextEncoder.encode(text): the literal 'eacute' becomes two units, every
\* other symbol one.
encode(text) ==
  LET wide == {i \in 1..Len(text) : text[i] = "'eacute'"}
      \* the place of the first unit of text[i] in the result
      place(i) == i + Cardinality({e \in wide : e < i})
  IN [j \in 1..(Len(text) + Cardinality(wide)) |->
        LET i == CHOOSE i \in 1..Len(text) :
                   \/ place(i) = j
                   \/ i \in wide /\ place(i) + 1 = j
        IN IF i \notin wide THEN text[i]
           ELSE IF place(i) = j THEN ELead ELSE ECont]

NoSymbol == ""
IsSymbol(x) == x # NoSymbol

\* The text the bytes decode to; flush tells whether a lead byte at the end
\* is decoded (to U+FFFD) or left for the next call.  A lead byte not
\* followed by its continuation, and a continuation without a lead, decode
\* to U+FFFD.
decodeBytes(bytes, flush) ==
  LET n == Len(bytes)
      emit(i) ==
        IF bytes[i] = ELead
        THEN IF i < n
             THEN (IF bytes[i + 1] = ECont THEN NoSymbol ELSE FFFDHead)
             ELSE (IF flush THEN FFFDHead ELSE NoSymbol)
        ELSE IF bytes[i] = ECont
        THEN (IF i > 1 /\ bytes[i - 1] = ELead THEN "'eacute'" ELSE FFFDTail)
        ELSE bytes[i]
  IN SelectSeq([i \in 1..n |-> emit(i)], IsSymbol)

\* decode(value) without the stream option: every call starts afresh and an
\* incomplete sequence at the end of the chunk becomes U+FFFD.
decodeNoStream(pending, bytes) ==
  [text |-> decodeBytes(bytes, TRUE), pending |-> <<>>]

\* decoder.decode(value, { stream: true }): pending is the lead byte the
\* decoder kept from the previous call; an incomplete sequence at the end of
\* the chunk is kept for the next call.
decodeStream(pending, bytes) ==
  [text |-> decodeBytes(pending \o bytes, FALSE),
   pending |-> IF Len(pending \o bytes) > 0 /\ Last(pending \o bytes) = ELead
               THEN <<ELead>> ELSE <<>>]

(***************************************************************************)
(* The wire schema (lib/api-schemas): zod objects in strict mode.  A       *)
(* successful parse returns the members in the order of the schema's       *)
(* shape, an absent optional member stays absent.                          *)
(***************************************************************************)
SchemaFail == [success |-> FALSE, data |-> NullV]

IsStr(v) == v.kind = "str"
StrLen(v) == Len(StrText(v.str))

ChatStreamDeltaSchema(v) ==
  IF /\ v.kind = "obj"
     /\ Get(v, "'type'") = StrV("'delta'")
     /\ IsStr(Get(v, "'token'")) /\ StrLen(Get(v, "'token'")) >= 1
     /\ Keys(v) \subseteq {"'type'", "'token'"}
  THEN [success |-> TRUE,
        data |-> ObjV(<<[key |-> "'type'", val |-> Get(v, "'type'")],
                        [key |-> "'token'", val |-> Get(v, "'token'")]>>)]
  ELSE SchemaFail

ChatStreamErrorSchema(v) ==
  IF /\ v.kind = "obj"
     /\ Get(v, "'type'") = StrV("'error'")
     /\ IsStr(Get(v, "'message'")) /\ StrLen(Get(v, "'message'")) >= 1
     /\ \/ ~HasKey(v, "'code'")
        \/ IsStr(Get(v, "'code'")) /\ StrLen(Get(v, "'code'")) <= 100
     /\ Keys(v) \subseteq {"'type'", "'message'", "'code'"}
  THEN [success |-> TRUE,
        data |-> ObjV(<<[key |-> "'type'", val |-> Get(v, "'type'")],
                        [key |-> "'message'", val |-> Get(v, "'message'")]>>
                      \o (IF HasKey(v, "'code'")
                          THEN <<[key |-> "'code'", val |-> Get(v, "'code'")]>>
                          ELSE <<>>))]
  ELSE SchemaFail

ChatStreamDoneSchema(v) ==
  IF /\ v.kind = "obj"
     /\ Get(v, "'type'") = StrV("'done'")
     /\ Keys(v) \subseteq {"'type'"}
  THEN [success |-> TRUE,
        data |-> ObjV(<<[key |-> "'type'", val |-> Get(v, "'type'")]>>)]
  ELSE SchemaFail

\* z.discriminatedUnion('type', [Delta, Error, Done]).safeParse(v)
ChatStreamEventSchema(v) ==
  IF v.kind # "obj" THEN SchemaFail
  ELSE LET d == Get(v, "'type'") IN
    IF d = StrV("'delta'") THEN ChatStreamDeltaSchema(v)
    ELSE IF d = StrV("'error'") THEN ChatStreamErrorSchema(v)
    ELSE IF d = StrV("'done'") THEN ChatStreamDoneSchema(v)
    ELSE SchemaFail

(***************************************************************************)
(* Line reassembly                                                         *)
(***************************************************************************)
\* String.prototype.split('\n'): always at least one element, the last one
\* is the text after the last separator.
split(s) ==
  LET seps == {i \in 1..Len(s) : s[i] = NL}
      \* the position of the k-th separator; 0 and Len(s) + 1 bracket the text
      sep(k) ==
        IF k = 0 THEN 0
        ELSE IF k > Cardinality(seps) THEN Len(s) + 1
        ELSE CHOOSE i \in seps : Cardinality({x \in seps : x <= i}) = k
  IN [k \in 1..(Cardinality(seps) + 1) |->
        SubSeq(s, sep(k - 1) + 1, sep(k) - 1)]


RECURSIVE Flatten(_)
Flatten(qs) == IF qs = <<>> THEN <<>> ELSE Head(qs) \o Flatten(Tail(qs))

(***************************************************************************)
(* Stream Relay: POST of app/api/chat/route.ts                             *)
(***************************************************************************)
\* The synthetic event of the validation-failure branch.
errorEvent ==
  ChatStreamErrorSchema(
    ObjV(<<[key |-> "'type'", val |-> StrV("'error'")],
           [key |-> "'message'",
            val |-> StrV("'Invalid event format from backend'")],
           [key |-> "'code'", val |-> StrV("'validation_error'")]>>)).data

\* A relay that forwards whatever parses, without the schema.
RelayLineUnvalidated(line) ==
  IF ~TrimNonEmpty(line) THEN <<>>
  ELSE
    LET parsed == JSONparse(line) IN
    IF ~parsed.ok THEN <<>> ELSE JSONstringify(parsed.val) \o <<NL>>

\* A relay that drops a line failing the schema without a word.
RelayLineDropInvalid(line) ==
  IF ~TrimNonEmpty(line) THEN <<>>
  ELSE
    LET parsed == JSONparse(line) IN
    IF ~parsed.ok THEN <<>>
    ELSE
      LET eventValidation == ChatStreamEventSchema(parsed.val) IN
      IF eventValidation.success
      THEN JSONstringify(eventValidation.data) \o <<NL>>
      ELSE <<>>

\* What the body of the for loop enqueues for one complete line (text, before
\* encoding).
RelayLine(line) ==
  IF ~TrimNonEmpty(line) THEN <<>>
  ELSE
    LET parsed == JSONparse(line) IN
    IF ~parsed.ok THEN <<>>
    ELSE
      LET eventValidation == ChatStreamEventSchema(parsed.val) IN
      IF eventValidation.success
      THEN JSONstringify(eventValidation.data) \o <<NL>>
      ELSE JSONstringify(errorEvent) \o <<NL>>

\* What the pass over the remaining buffer enqueues after the upstream ended.
RelayRemaining(buffer) ==
  IF ~TrimNonEmpty(buffer) THEN <<>>
  ELSE
    LET parsed == JSONparse(buffer) IN
    IF ~parsed.ok THEN <<>>
    ELSE
      LET eventValidation == ChatStreamEventSchema(parsed.val) IN
      IF eventValidation.success
      THEN JSONstringify(eventValidation.data) \o <<NL>>
      ELSE <<>>

\* One iteration of the relay's read loop on a chunk: the new decoder state,
\* the new buffer and the bytes enqueued.
RelayChunk(pending, buffer, value) ==
  LET d == decodeStream(pending, value)
      lines == split(buffer \o d.text)
  IN [pending |-> d.pending,
      buffer |-> Last(lines),
      enqueued |-> encode(Flatten([i \in 1..(Len(lines) - 1) |->
                                     RelayLine(lines[i])]))]

(***************************************************************************)
(* Message texts.  A text is a sequence of characters.                     *)
(***************************************************************************)
WaitingText ==
  <<"P", "l", "e", "a", "s", "e", " ", "w", "a", "i", "t", ",", " ", "I",
    " ", "a", "m", " ", "c", "o", "o", "k", "i", "n", "g", ".", ".", ".">>

ApologyText ==
  <<"S", "o", "r", "r", "y", ",", " ", "t", "h", "e", "r", "e", " ", "w",
    "a", "s", " ", "a", "n", " ", "e", "r", "r", "o", "r", " ", "p", "r",
    "o", "c", "e", "s", "s", "i", "n", "g", " ", "y", "o", "u", "r", " ",
    "m", "e", "s", "s", "a", "g", "e", ".">>

FlashcardsReadyText ==
  <<"F", "l", "a", "s", "h", "c", "a", "r", "d", "s", " ", "r", "e", "a",
    "d", "y", "!", " ", "C", "l", "i", "c", "k", " ", "b", "e", "l", "o",
    "w", " ", "t", "o", " ", "v", "i", "e", "w", " ", "t", "h", "e", "m">>

FlashcardsEmptyText ==
  <<"S", "o", "r", "r", "y", ",", " ", "I", " ", "c", "o", "u", "l", "d",
    "n", "'", "t", " ", "g", "e", "n", "e", "r", "a", "t", "e", " ", "f",
    "l", "a", "s", "h", "c", "a", "r", "d", "s", ".", " ", "P", "l", "e",
    "a", "s", "e", " ", "t", "r", "y", " ", "a", "g", "a", "i", "n", ".">>

FlashcardsErrorText ==
  <<"S", "o", "r", "r", "y", ",", " ", "t", "h", "e", "r", "e", " ", "w",
    "a", "s", " ", "a", "n", " ", "e", "r", "r", "o", "r", " ", "g", "e",
    "n", "e", "r", "a", "t", "i", "n", "g", " ", "f", "l", "a", "s", "h",
    "c", "a", "r", "d", "s", ".", " ", "P", "l", "e", "a", "s", "e", " ",
    "t", "r", "y", " ", "a", "g", "a", "i", "n", ".">>

UserText == <<"h", "i">>

\* The characters \s matches and trim() removes.
WhiteSpace == {" ", "\n", "\t", "\r"}

UpperCase ==
  <<"A", "B", "C", "D", "E", "F", "G", "H", "I", "J", "K", "L", "M",
    "N", "O", "P", "Q", "R", "S", "T", "U", "V", "W", "X", "Y", "Z">>
LowerCase ==
  <<"a", "b", "c", "d", "e", "f", "g", "h", "i", "j", "k", "l", "m",
    "n", "o", "p", "q", "r", "s", "t", "u", "v", "w", "x", "y", "z">>

toLowerChar(c) ==
  IF \E i \in 1..26 : UpperCase[i] = c
  THEN LowerCase[CHOOSE i \in 1..26 : UpperCase[i] = c]
  ELSE c

toLowerCase(t) == [i \in 1..Len(t) |-> toLowerChar(t[i])]

Min(S) == CHOOSE x \in S : \A y \in S : x <= y
Max(S) == CHOOSE x \in S : \A y \in S : x >= y

\* First position at or after i that holds a character of stop, or
\* Len(t) + 1.
Upto(t, i, stop) ==
  Min({j \in i..(Len(t) + 1) : j = Len(t) + 1 \/ t[j] \in stop})

\* First position at or after i that holds no white space.
SkipSpace(t, i) ==
  Min({j \in i..(Len(t) + 1) : j = Len(t) + 1 \/ t[j] \notin WhiteSpace})

\* Last position at or before i that holds no white space, or 0.
SkipSpaceBack(t, i) ==
  Max({j \in 0..i : j = 0 \/ t[j] \notin WhiteSpace})

\* String.prototype.trim()
trim(t) == SubSeq(t, SkipSpace(t, 1), SkipSpaceBack(t, Len(t)))

\* sub occurs in t at position i
StartsWithAt(t, sub, i) ==
  /\ i >= 1
  /\ i + Len(sub) - 1 <= Len(t)
  /\ SubSeq(t, i, i + Len(sub) - 1) = sub

\* String.prototype.includes(sub)
includes(t, sub) == \E i \in 1..(Len(t) + 1) : StartsWithAt(t, sub, i)

\* replace(/\s+/g, ' ')
collapseSpace(t) ==
  SelectSeq([i \in 1..Len(t) |->
               IF t[i] \notin WhiteSpace THEN t[i]
               ELSE IF i > 1 /\ t[i - 1] \in WhiteSpace THEN NoSymbol
               ELSE " "],
            IsSymbol)

RolePrefix == <<"a", "s", "s", "i", "s", "t", "a", "n", "t", ":">>

\* The regular expression (assistant|Assistant):\s* under the i flag matches
\* at position i: the position after the match, or 0 when there is none.
RolePrefixEnd(t, i) ==
  IF /\ i + Len(RolePrefix) - 1 <= Len(t)
     /\ toLowerCase(SubSeq(t, i, i + Len(RolePrefix) - 1)) = RolePrefix
  THEN SkipSpace(t, i + Len(RolePrefix))
  ELSE 0

\* token.replace(/^(assistant|Assistant):\s*/i, '')
StripLeadingRolePrefix(t) ==
  IF RolePrefixEnd(t, 1) = 0 THEN t
  ELSE SubSeq(t, RolePrefixEnd(t, 1), Len(t))

(***************************************************************************)
(* The message store (lib/store.ts).  sessions maps a session id to its    *)
(* messages; a message is [id, role, content].                             *)
(***************************************************************************)
SessionIds == {"s1", "s2"}

OldText == <<"o", "l", "d">>

\* The persisted store when the page opens: the session the page shows has no
\* message yet, the other session holds an answer of an earlier turn.
InitSessions ==
  [id \in SessionIds |->
     IF id = "s1" THEN <<>>
     ELSE <<[id |-> 1, role |-> "assistant", content |-> OldText]>>]

hasCurrentSession(sessions, currentSessionId) ==
  currentSessionId \in DOMAIN sessions

\* getCurrentSession().messages
currentMessages(sessions, currentSessionId) == sessions[currentSessionId]

appendMessage(sessions, currentSessionId, message) ==
  IF ~hasCurrentSession(sessions, currentSessionId) THEN sessions
  ELSE [sessions EXCEPT ![currentSessionId] = Append(@, message)]

updateLastMessage(sessions, currentSessionId, content) ==
  IF \/ ~hasCurrentSession(sessions, currentSessionId)
     \/ Len(sessions[currentSessionId]) = 0
  THEN sessions
  ELSE
    LET lastMessage == Last(sessions[currentSessionId]) IN
    [sessions EXCEPT ![currentSessionId] =
       [i \in 1..Len(@) |->
          IF @[i].id = lastMessage.id
          THEN [@[i] EXCEPT !.content = content]
          ELSE @[i]]]

updateMessageChunk(sessions, currentSessionId, token) ==
  IF \/ ~hasCurrentSession(sessions, currentSessionId)
     \/ Len(sessions[currentSessionId]) = 0
  THEN sessions
  ELSE
    LET lastMessage == Last(sessions[currentSessionId]) IN
    [sessions EXCEPT ![currentSessionId] =
       [i \in 1..Len(@) |->
          IF @[i].id = lastMessage.id
          THEN [@[i] EXCEPT !.content = @ \o token]
          ELSE @[i]]]

\* The code derives a message's id from the clock; here the clock is taken
\* to advance between any two messages of a session, and the id is the count
\* of messages created so far.
newMessage(sessions, currentSessionId, role, content) ==
  [id |-> IF hasCurrentSession(sessions, currentSessionId)
          THEN Len(sessions[currentSessionId]) + 1 ELSE 1,
   role |-> role, content |-> content]

(***************************************************************************)
(* Duplicate detector: calculateSimilarity of page.tsx                     *)
(***************************************************************************)
\* calculateSimilarity(str1, str2), as the fraction num / den.
Fraction(n, d) == [num |-> n, den |-> d]

\* t.split(/\s+/).filter(w => w.length > 3): the runs of characters between
\* white space that are longer than three characters, in order.
longWords(t) ==
  LET starts == {i \in 1..Len(t) :
                   t[i] \notin WhiteSpace /\ (i = 1 \/ t[i - 1] \in WhiteSpace)}
      start(k) == CHOOSE i \in starts :
                    Cardinality({x \in starts : x <= i}) = k
      words == [k \in 1..Cardinality(starts) |->
                  SubSeq(t, start(k), Upto(t, start(k), WhiteSpace) - 1)]
      isLong(w) == Len(w) > 3
  IN SelectSeq(words, isLong)

calculateSimilarity(str1, str2) ==
  LET longer == IF Len(str1) > Len(str2) THEN str1 ELSE str2
      shorter == IF Len(str1) > Len(str2) THEN str2 ELSE str1
      longerNormalized == collapseSpace(toLowerCase(longer))
      shorterNormalized == collapseSpace(toLowerCase(shorter))
      words1 == longWords(longerNormalized)
      words2 == longWords(shorterNormalized)
      isCommon(w) == \E j \in 1..Len(words2) : words2[j] = w
      commonWords == SelectSeq(words1, isCommon)
  IN
  IF Len(longer) = 0 THEN Fraction(1, 1)
  ELSE IF \/ includes(longerNormalized, shorterNormalized)
          \/ includes(shorterNormalized,
                      SubSeq(longerNormalized, 1,
                             IF Len(shorterNormalized) < Len(longerNormalized)
                             THEN Len(shorterNormalized)
                             ELSE Len(longerNormalized)))
  THEN Fraction(9, 10)
  ELSE IF Len(words1) = 0 \/ Len(words2) = 0 THEN Fraction(0, 1)
  ELSE Fraction(Len(commonWords) * 2, Len(words1) + Len(words2))

\* similarity > 0.9
exceedsNineTenths(f) == f.num * 10 > 9 * f.den

\* similarity > 0.8
exceedsEightTenths(f) == f.num * 10 > 8 * f.den

(***************************************************************************)
(* Formula normalizer: cleanLaTeX of lib/latex-cleaner.  A regular         *)
(* expression is given by the operator that tells where its match starting *)
(* at position i ends (the position after the match, 0 when there is none) *)
(* and by the replacement of the match.                                    *)
(***************************************************************************)
Dollar == "$"
Backslash == "\\"

\* /<<<([^>]+)>>>/
formulaMatchEnd(t, i) ==
  IF StartsWithAt(t, <<"<", "<", "<">>, i)
  THEN LET r == Upto(t, i + 3, {">"}) IN
       IF r > i + 3 /\ StartsWithAt(t, <<">", ">", ">">>, r)
       THEN r + 3 ELSE 0
  ELSE 0

isDisplayMath(trimmed) ==
  \/ includes(trimmed, <<Backslash, "f", "r", "a", "c">>)
  \/ includes(trimmed, <<Backslash, "s", "u", "m">>)
  \/ includes(trimmed, <<Backslash, "b", "a", "r">>)
  \/ includes(trimmed, <<Backslash, "t", "i", "m", "e", "s">>)
  \/ includes(trimmed, <<Backslash, "r", "i", "g", "h", "t",
                         "a", "r", "r", "o", "w">>)
  \/ includes(trimmed, <<Backslash, "c", "d", "o", "t">>)
  \/ (includes(trimmed, <<"=">>) /\ Len(trimmed) > 15)
  \/ includes(trimmed, <<"\n">>)
  \/ Len(trimmed) > 40

formulaReplacement(t, i, e) ==
  LET trimmed == trim(SubSeq(t, i + 3, e - 4)) IN
  IF isDisplayMath(trimmed)
  THEN <<Dollar, Dollar>> \o trimmed \o <<Dollar, Dollar>>
  ELSE <<Dollar>> \o trimmed \o <<Dollar>>

\* /\n(assistant|Assistant):\s*/i
lineRolePrefixMatchEnd(t, i) ==
  IF t[i] = "\n" THEN RolePrefixEnd(t, i + 1) ELSE 0

lineRolePrefixReplacement(t, i, e) == <<"\n">>

\* /\$\$([^$]+)\$(?!\$)/
pattern1MatchEnd(t, i) ==
  IF StartsWithAt(t, <<Dollar, Dollar>>, i)
  THEN LET r == Upto(t, i + 2, {Dollar}) IN
       IF /\ r > i + 2
          /\ r <= Len(t)
          /\ ~(r + 1 <= Len(t) /\ t[r + 1] = Dollar)
       THEN r + 1 ELSE 0
  ELSE 0

pattern1Replacement(t, i, e) ==
  <<Dollar, Dollar>> \o SubSeq(t, i + 2, e - 2) \o <<Dollar, Dollar>>

\* The position of the opening $ of  \$([^$]+)\$\$  when it matches at
\* position d: the position after the match, or 0.
inlineDoubleClosedEnd(t, d) ==
  IF d <= Len(t) /\ t[d] = Dollar
  THEN LET r == Upto(t, d + 1, {Dollar}) IN
       IF r > d + 1 /\ StartsWithAt(t, <<Dollar, Dollar>>, r)
       THEN r + 2 ELSE 0
  ELSE 0

\* /([^$]|^)\$([^$]+)\$\$/
pattern2MatchEnd(t, i) ==
  IF t[i] # Dollar THEN inlineDoubleClosedEnd(t, i + 1)
  ELSE IF i = 1 THEN inlineDoubleClosedEnd(t, i)
  ELSE 0

pattern2Replacement(t, i, e) ==
  IF t[i] # Dollar
  THEN <<t[i], Dollar>> \o SubSeq(t, i + 2, e - 3) \o <<Dollar>>
  ELSE <<Dollar>> \o SubSeq(t, i + 1, e - 3) \o <<Dollar>>

Punctuation == {".", ",", ";", ":", "!", "?", ")", "]", "}"}

\* An iteration of the while loop of Pattern 3 that examines no delimiter
\* and leaves searchFrom where it is.
scanStepStay(cleaned, searchFrom) ==
  LET found == {j \in searchFrom..(Len(cleaned) - 1) :
                  StartsWithAt(cleaned, <<Dollar, Dollar>>, j)}
  IN
  [cleaned |-> cleaned, searchFrom |-> searchFrom, done |-> found = {},
   dollarIndex |-> IF found = {} THEN 0 ELSE Min(found), inserted |-> 0]

\* One iteration of the while loop of Pattern 3 from its state (cleaned,
\* searchFrom): the new state, whether the loop has ended (done), the
\* delimiter the iteration examined (dollarIndex, 0 when there was none) and
\* where it inserted a closing pair (inserted, 0 when it did not).  All are
\* positions, one more than the code's offsets.
scanStep(cleaned, searchFrom) ==
  LET found == {j \in searchFrom..(Len(cleaned) - 1) :
                  StartsWithAt(cleaned, <<Dollar, Dollar>>, j)}
      loop(text, from, ended, dollar, at) ==
        [cleaned |-> text, searchFrom |-> from, done |-> ended,
         dollarIndex |-> dollar, inserted |-> at]
  IN
  IF found = {} THEN loop(cleaned, searchFrom, TRUE, 0, 0)
  ELSE
    LET dollar == Min(found)
        afterDollar == SubSeq(cleaned, dollar + 2, Len(cleaned))
        \* position of the first $ in afterDollar, Len(afterDollar) + 1 if none
        nextDollar == Upto(afterDollar, 1, {Dollar})
    IN
    IF StartsWithAt(afterDollar, <<Dollar, Dollar>>, 1)
    THEN loop(cleaned, dollar + 4, FALSE, dollar, 0)
    ELSE IF nextDollar > Len(afterDollar)
    THEN
      \* /^([^$\n]+?)(?=\s|$|[.,;:!?\)\]\}])/
      IF afterDollar = <<>> \/ afterDollar[1] = "\n"
      THEN loop(cleaned \o <<Dollar, Dollar>>, searchFrom, TRUE, dollar,
                Len(cleaned) + 1)
      ELSE
        LET line == Upto(afterDollar, 1, {"\n"}) - 1
            content ==
              Min({k \in 1..line :
                     \/ k = Len(afterDollar)
                     \/ afterDollar[k + 1] \in WhiteSpace \union Punctuation})
            insertPos == dollar + 1 + content
        IN loop(SubSeq(cleaned, 1, insertPos) \o <<Dollar, Dollar>>
                  \o SubSeq(cleaned, insertPos + 1, Len(cleaned)),
                insertPos + 3, FALSE, dollar, insertPos + 1)
    ELSE IF /\ nextDollar > 1
            /\ nextDollar < Len(afterDollar)
            /\ afterDollar[nextDollar + 1] # Dollar
    THEN loop(cleaned, dollar + nextDollar + 2, FALSE, dollar, 0)
    ELSE IF /\ nextDollar < Len(afterDollar)
            /\ afterDollar[nextDollar + 1] = Dollar
    THEN loop(cleaned, dollar + nextDollar + 3, FALSE, dollar, 0)
    ELSE loop(cleaned, dollar + 2, FALSE, dollar, 0)

RECURSIVE closeUnclosed(_, _)
\* The while loop of Pattern 3 from its state (cleaned, searchFrom) on.
closeUnclosed(cleaned, searchFrom) ==
  LET s == scanStep(cleaned, searchFrom) IN
  IF s.done THEN s.cleaned ELSE closeUnclosed(s.cleaned, s.searchFrom)

\* /\$\$([^$]*)\$([^$]*)\$\$/
nestedMatchEnd(t, i) ==
  IF StartsWithAt(t, <<Dollar, Dollar>>, i)
  THEN LET r == Upto(t, i + 2, {Dollar}) IN
       IF r <= Len(t)
       THEN LET q == Upto(t, r + 1, {Dollar}) IN
            IF StartsWithAt(t, <<Dollar, Dollar>>, q) THEN q + 2 ELSE 0
       ELSE 0
  ELSE 0

nestedReplacement(t, i, e) ==
  LET r == Upto(t, i + 2, {Dollar}) IN
  <<Dollar, Dollar>> \o SubSeq(t, i + 2, r - 1) \o SubSeq(t, r + 1, e - 3)
  \o <<Dollar, Dollar>>

\* /\$\$([a-z])\$\$/
singleVariableMatchEnd(t, i) ==
  IF /\ StartsWithAt(t, <<Dollar, Dollar>>, i)
     /\ i + 2 <= Len(t)
     /\ \E k \in 1..26 : LowerCase[k] = t[i + 2]
     /\ StartsWithAt(t, <<Dollar, Dollar>>, i + 3)
  THEN i + 5 ELSE 0

singleVariableReplacement(t, i, e) == <<Dollar, t[i + 2], Dollar>>

\* The regular expressions of cleanLaTeX, by name.
MatchEnd(re, t, i) ==
  CASE re = "formula" -> formulaMatchEnd(t, i)
    [] re = "lineRolePrefix" -> lineRolePrefixMatchEnd(t, i)
    [] re = "pattern1" -> pattern1MatchEnd(t, i)
    [] re = "pattern2" -> pattern2MatchEnd(t, i)
    [] re = "nested" -> nestedMatchEnd(t, i)
    [] re = "singleVariable" -> singleVariableMatchEnd(t, i)

Replacement(re, t, i, e) ==
  CASE re = "formula" -> formulaReplacement(t, i, e)
    [] re = "lineRolePrefix" -> lineRolePrefixReplacement(t, i, e)
    [] re = "pattern1" -> pattern1Replacement(t, i, e)
    [] re = "pattern2" -> pattern2Replacement(t, i, e)
    [] re = "nested" -> nestedReplacement(t, i, e)
    [] re = "singleVariable" -> singleVariableReplacement(t, i, e)

RECURSIVE replaceFrom(_, _, _)
\* t.replace(/re/g, replacement) from position from on: the matches are
\* taken from left to right and do not overlap.
replaceFrom(re, t, from) ==
  LET starts == {i \in from..Len(t) : MatchEnd(re, t, i) # 0} IN
  IF starts = {} THEN SubSeq(t, from, Len(t))
  ELSE LET i == Min(starts)
           e == MatchEnd(re, t, i)
       IN SubSeq(t, from, i - 1) \o Replacement(re, t, i, e)
          \o replaceFrom(re, t, e)

replaceAll(re, t) == replaceFrom(re, t, 1)

\* cleanLaTeX up to the while loop of Pattern 3: Steps 0 and 1, Patterns 1
\* and 2.
beforeScan(content) ==
  LET step0 == replaceAll("formula", content)
      step1 == replaceAll("lineRolePrefix", StripLeadingRolePrefix(step0))
      pattern1 == replaceAll("pattern1", step1)
  IN replaceAll("pattern2", pattern1)

\* cleanLaTeX after the while loop: Steps 3 and 4 and the trim.
afterScan(pattern3) ==
  LET step3 == replaceAll("nested", pattern3)
      step4 == replaceAll("singleVariable", step3)
  IN trim(step4)

cleanLaTeX(content) == afterScan(closeUnclosed(beforeScan(content), 1))

(***************************************************************************)
(* Response finalizer: the content onDone writes back                      *)
(***************************************************************************)
\* content.split(/\n{2,}/) from position from on.
RECURSIVE splitSections(_, _)
splitSections(t, from) ==
  LET breaks == {i \in from..(Len(t) - 1) : t[i] = "\n" /\ t[i + 1] = "\n"} IN
  IF breaks = {} THEN <<SubSeq(t, from, Len(t))>>
  ELSE LET i == Min(breaks)
           e == Min({j \in i..(Len(t) + 1) : j = Len(t) + 1 \/ t[j] # "\n"})
       IN <<SubSeq(t, from, i - 1)>> \o splitSections(t, e)

hasText(section) == trim(section) # <<>>

\* A signature that is cut to 150 characters after its white space is
\* collapsed.
normalizedCollapsedFirst(section) ==
  LET collapsed == collapseSpace(toLowerCase(trim(section))) IN
  SubSeq(collapsed, 1, IF Len(collapsed) < 150 THEN Len(collapsed) ELSE 150)

\* section.trim().toLowerCase().substring(0, 150).replace(/\s+/g, ' ')
normalized(section) ==
  LET lowered == toLowerCase(trim(section)) IN
  collapseSpace(SubSeq(lowered, 1, IF Len(lowered) < 150 THEN Len(lowered) ELSE 150))

RECURSIVE join(_)
\* uniqueSections.join('\n\n')
join(sections) ==
  IF sections = <<>> THEN <<>>
  ELSE IF Len(sections) = 1 THEN Head(sections)
  ELSE Head(sections) \o <<"\n", "\n">> \o join(Tail(sections))

\* The sections whose signature no earlier section has.
uniqueSections(sections) ==
  LET firstOf(k) == \A j \in 1..(k - 1) :
                      normalized(sections[j]) # normalized(sections[k])
      kept == {k \in 1..Len(sections) : firstOf(k)}
      nth(n) == CHOOSE k \in kept : Cardinality({x \in kept : x <= k}) = n
  IN [n \in 1..Cardinality(kept) |-> sections[nth(n)]]

\* An onDone whose halves check takes halves of 100 characters too.
dedupedContentFromHundred(lastContent) ==
  LET content == trim(lastContent)
      midPoint == Len(content) \div 2
      firstHalf == trim(SubSeq(content, 1, midPoint))
      secondHalf == trim(SubSeq(content, midPoint + 1, Len(content)))
      sections == SelectSeq(splitSections(content, 1), hasText)
      unique == uniqueSections(sections)
  IN
  IF /\ Len(firstHalf) >= 100
     /\ Len(secondHalf) >= 100
     /\ exceedsEightTenths(calculateSimilarity(firstHalf, secondHalf))
  THEN firstHalf
  ELSE IF Len(sections) > 1 /\ Len(unique) < Len(sections)
  THEN join(unique)
  ELSE content

\* The content of onDone after its two duplicate checks, before cleanLaTeX,
\* for a last message whose content is lastContent (non-empty).
dedupedContent(lastContent) ==
  LET content == trim(lastContent)
      midPoint == Len(content) \div 2
      firstHalf == trim(SubSeq(content, 1, midPoint))
      secondHalf == trim(SubSeq(content, midPoint + 1, Len(content)))
      sections == SelectSeq(splitSections(content, 1), hasText)
      unique == uniqueSections(sections)
  IN
  IF /\ Len(firstHalf) > 100
     /\ Len(secondHalf) > 100
     /\ exceedsEightTenths(calculateSimilarity(firstHalf, secondHalf))
  THEN firstHalf
  ELSE IF Len(sections) > 1 /\ Len(unique) < Len(sections)
  THEN join(unique)
  ELSE content

\* The content onDone stores.
finalContent(lastContent) == cleanLaTeX(dedupedContent(lastContent))

(***************************************************************************)
(* The callbacks handleSendMessage passes to streamChat.  hs is the state  *)
(* the callbacks read and write: the store's sessions, the component's     *)
(* isStreaming, the closure variable firstToken, the flag of a flashcard   *)
(* generation in flight, the log of handler invocations, and threw, set    *)
(* when a callback throws.                                                 *)
(***************************************************************************)
Call(h, a, b) == [h |-> h, a |-> a, b |-> b]

onToken(hs, cur, token) ==
  LET logged == [hs EXCEPT !.calls = Append(@, Call("onToken", token, UndefV))]
  IN
  IF token.kind # "str" THEN [logged EXCEPT !.threw = TRUE]
  ELSE
    LET cleanedToken == StripLeadingRolePrefix(StrText(token.str)) IN
    IF hs.firstToken
    THEN [logged EXCEPT
            !.sessions = updateLastMessage(@, cur, cleanedToken),
            !.firstToken = FALSE]
    ELSE [logged EXCEPT
            !.sessions = updateMessageChunk(@, cur, cleanedToken)]

\* handleGenerateFlashcards up to its first await: the waiting message is
\* appended and the request is in flight.
handleGenerateFlashcards(hs, cur) ==
  [hs EXCEPT
     !.sessions = appendMessage(@, cur,
                    newMessage(@, cur, "assistant", WaitingText)),
     !.flashPending = TRUE]

onTool(hs, cur, name, args) ==
  LET logged == [hs EXCEPT !.calls = Append(@, Call("onTool", name, args))]
  IN
  IF name = StrV("'generateFlashcards'")
  THEN IF args.kind \in {"undef", "null"}
       THEN [logged EXCEPT !.threw = TRUE]
       ELSE handleGenerateFlashcards(logged, cur)
  ELSE logged

onDone(hs, cur, data) ==
  LET logged == [hs EXCEPT !.calls = Append(@, Call("onDone", data, UndefV)),
                           !.isStreaming = FALSE]
  IN
  IF /\ hasCurrentSession(hs.sessions, cur)
     /\ Len(currentMessages(hs.sessions, cur)) > 0
     /\ Last(currentMessages(hs.sessions, cur)).content # <<>>
  THEN [logged EXCEPT
          !.sessions =
            updateLastMessage(@, cur,
              finalContent(Last(currentMessages(hs.sessions, cur)).content))]
  ELSE logged

(***************************************************************************)
(* Stream Consumer: streamChat of lib/streamChat.ts                        *)
(***************************************************************************)
\* A consumer without the try/catch around JSON.parse.
ConsumerPartThrowing(hs, cur, part) ==
  IF hs.threw \/ ~TrimNonEmpty(part) THEN hs
  ELSE
    LET parsed == JSONparse(part) IN
    IF ~parsed.ok \/ parsed.val.kind = "null" THEN [hs EXCEPT !.threw = TRUE]
    ELSE
      LET type == Get(parsed.val, "'type'") IN
      IF type = StrV("'delta'")
      THEN onToken(hs, cur, Get(parsed.val, "'token'"))
      ELSE IF type = StrV("'tool'")
      THEN onTool(hs, cur, Get(parsed.val, "'name'"), Get(parsed.val, "'args'"))
      ELSE IF type = StrV("'done'")
      THEN onDone(hs, cur, parsed.val)
      ELSE hs

\* The body of the for loop for one part.  Reading parsed.type of null
\* throws a TypeError.
ConsumerPart(hs, cur, part) ==
  IF hs.threw \/ ~TrimNonEmpty(part) THEN hs
  ELSE
    LET parsed == JSONparse(part) IN
    IF ~parsed.ok THEN hs
    ELSE IF parsed.val.kind = "null" THEN [hs EXCEPT !.threw = TRUE]
    ELSE
      LET type == Get(parsed.val, "'type'") IN
      IF type = StrV("'delta'")
      THEN onToken(hs, cur, Get(parsed.val, "'token'"))
      ELSE IF type = StrV("'tool'")
      THEN onTool(hs, cur, Get(parsed.val, "'name'"), Get(parsed.val, "'args'"))
      ELSE IF type = StrV("'done'")
      THEN onDone(hs, cur, parsed.val)
      ELSE hs

RECURSIVE ConsumerParts(_, _, _)
ConsumerParts(hs, cur, parts) ==
  IF parts = <<>> THEN hs
  ELSE ConsumerParts(ConsumerPart(hs, cur, Head(parts)), cur, Tail(parts))

\* A read loop that forgets the text after the last separator.
ConsumerChunkNoCarry(pending, buffer, value, hs, cur) ==
  LET d == decodeStream(pending, value)
      parts == split(buffer \o d.text)
  IN [pending |-> d.pending,
      buffer |-> <<>>,
      hs |-> ConsumerParts(hs, cur, Front(parts))]

\* One iteration of the consumer's read loop on a chunk.
ConsumerChunk(pending, buffer, value, hs, cur) ==
  LET d == decodeStream(pending, value)
      parts == split(buffer \o d.text)
  IN [pending |-> d.pending,
      buffer |-> Last(parts),
      hs |-> ConsumerParts(hs, cur, Front(parts))]

(***************************************************************************)
(* Upstream payloads: up to MaxLines lines of the catalogue, the last one  *)
(* with or without its line separator.                                     *)
(***************************************************************************)
LDeltaA == <<"{", "'type'", ":", "'delta'", ",", "'token'", ":", "'a'", "}">>
LDeltaE ==
  <<"{", "'token'", ":", ELead, ECont, ",", SP, "'type'", ":", "'delta'", "}">>
LDeltaRole ==
  <<"{", "'type'", ":", "'delta'", ",", "'token'", ":", "'assistant:b'", "}">>
LDone == <<"{", "'type'", ":", "'done'", "}">>
LDoneId ==
  <<"{", "'type'", ":", "'done'", ",", "'messageId'", ":", "'m1'", "}">>
LTool ==
  <<"{", "'type'", ":", "'tool'", ",", "'name'", ":", "'generateFlashcards'",
    ",", "'args'", ":", "{", "}", "}">>
LError == <<"{", "'type'", ":", "'error'", ",", "'message'", ":", "'boom'", "}">>
LGarbage == <<"{", "'type'", ":">>
LNull == <<"null">>

Catalogue ==
  {LDeltaA, LDeltaE, LDone, LDoneId, LTool, LError, LGarbage, LNull}

LineSeqs(maxLines) == UNION {[1..n -> Catalogue] : n \in 0..maxLines}

RECURSIVE JoinLines(_, _)
\* The lines, each followed by the separator; the last one only if
\* terminated.
JoinLines(ls, terminated) ==
  IF ls = <<>> THEN <<>>
  ELSE IF Len(ls) = 1 /\ ~terminated THEN Head(ls)
  ELSE Head(ls) \o <<NL>> \o JoinLines(Tail(ls), terminated)

Payloads(maxLines) ==
  {JoinLines(ls, t) : ls \in LineSeqs(maxLines), t \in BOOLEAN}

\* The sizes of the chunk a read may return when remaining bytes are left:
\* up to MaxChunk bytes, or all that is left.
ChunkSizes(remaining) ==
  {n \in 1..remaining : n <= MaxChunk \/ n = remaining}

(***************************************************************************)
(* The inbound request of the relay and ChatRequestSchema                  *)
(* (lib/api-schemas.ts).  A request body is an object; a field's value is  *)
(* absent, a string of some length, or a number.  A number is held as      *)
(* twice its value, so that halves exist: 3 stands for 1.5.                *)
(***************************************************************************)
Absent == [kind |-> "undefined", len |-> 0, halves |-> 0]
StrOf(n) == [kind |-> "string", len |-> n, halves |-> 0]
NumOf(h) == [kind |-> "number", len |-> 0, halves |-> h]

\* One issue of a failed parse: the path of the field, the message, and the
\* keys the message names.
issue(path, message) == [path |-> path, message |-> message, keys |-> {}]

\* The string schema without its upper limit.
ZodStringNoMax(v, path, max, minMessage, maxMessage, optional) ==
  IF v.kind = "undefined"
  THEN IF optional THEN <<>> ELSE <<issue(path, "Required")>>
  ELSE IF v.kind # "string"
  THEN <<issue(path, "Expected string, received number")>>
  ELSE IF v.len < 1 THEN <<issue(path, minMessage)>> ELSE <<>>

\* z.string().min(1, minMessage).max(max, maxMessage), optional or not
ZodString(v, path, max, minMessage, maxMessage, optional) ==
  IF v.kind = "undefined"
  THEN IF optional THEN <<>> ELSE <<issue(path, "Required")>>
  ELSE IF v.kind # "string"
  THEN <<issue(path, "Expected string, received number")>>
  ELSE (IF v.len < 1 THEN <<issue(path, minMessage)>> ELSE <<>>)
       \o (IF v.len > max THEN <<issue(path, maxMessage)>> ELSE <<>>)

\* z.number().int().positive().max(20).optional()
ZodRetrievalK(v, path) ==
  IF v.kind = "undefined" THEN <<>>
  ELSE IF v.kind # "number"
  THEN <<issue(path, "Expected number, received string")>>
  ELSE (IF v.halves % 2 # 0
        THEN <<issue(path, "Expected integer, received float")>>
        ELSE <<>>)
       \o (IF v.halves <= 0
           THEN <<issue(path, "Number must be greater than 0")>>
           ELSE <<>>)
       \o (IF v.halves > 2 * 20
           THEN <<issue(path, "Number must be less than or equal to 20")>>
           ELSE <<>>)

TooShort == "String must contain at least 1 character(s)"
TooLong == "String must contain at most the maximum of character(s)"

\* ChatRequestSchema.safeParse(body): the issues of the fields in the order
\* of the schema, then one issue without a path for all unknown keys
\* together (strict mode).
ChatRequestSchema(body) ==
  LET issues ==
        ZodString(body.sessionId, "sessionId", 200,
                  TooShort, TooLong, TRUE)
        \o ZodString(body.message, "message", 10000,
                     "Message cannot be empty", "Message too long",
                     FALSE)
        \o ZodString(body.subject, "subject", 100,
                     "Subject is required", TooLong, FALSE)
        \o ZodRetrievalK(body.max_retrieval_k, "max_retrieval_k")
        \o ZodString(body.syllabus_hints, "syllabus_hints", 1000,
                     TooShort, TooLong, TRUE)
        \o (IF body.extra # {}
            THEN <<[path |-> "",
                     message |-> "Unrecognized key(s) in object: ",
                     keys |-> body.extra]>>
            ELSE <<>>)
  IN [success |-> issues = <<>>, issues |-> issues]

\* errors.map(e => `${e.path.join('.')}: ${e.message}`).join(', '): one
\* entry '<field>: <message>' for every issue, in order; the message of the
\* issue for unknown keys ends with the keys.
detailOf(issues) ==
  [i \in 1..Len(issues) |->
     [field |-> issues[i].path, message |-> issues[i].message,
      keys |-> issues[i].keys]]

\* The body JSON.stringify(...) of an error response of the relay: its
\* error text and, for a rejected request, its detail.
errorBody(error, detail) == [error |-> error, detail |-> detail]

\* The body of a response that carries the stream.
streamBody == [error |-> <<>>, detail |-> <<>>]

\* The request streamChat sends for a turn: session id, the user's text and
\* the session's subject.
TurnRequest ==
  [sessionId |-> StrOf(2), message |-> StrOf(2), subject |-> StrOf(7),
   max_retrieval_k |-> Absent, syllabus_hints |-> Absent, extra |-> {}]

\* Requests of any client of the relay: every field at and around the limits
\* of the schema.
Requests ==
  [sessionId : {Absent, StrOf(0), StrOf(200), StrOf(201)},
   message : {Absent, NumOf(2), StrOf(0), StrOf(1), StrOf(10000),
              StrOf(10001)},
   subject : {Absent, StrOf(0), StrOf(100), StrOf(101)},
   max_retrieval_k : {Absent, NumOf(-3), NumOf(0), NumOf(2), NumOf(3),
                      NumOf(40), NumOf(41), NumOf(42), StrOf(1)},
   syllabus_hints : {Absent, StrOf(1000), StrOf(1001)},
   extra : {{}, {"foo"}, {"foo", "bar"}}]

\* The bodies a backend sends with a non-success status.
ErrorBodies == {<<>>, <<"boom">>, LError}

(***************************************************************************)
(* State                                                                   *)
(***************************************************************************)
VARIABLES
  request,          \* the body of the request the relay receives
  payload,          \* the bytes of the backend's response body
  backendStatus,    \* backendResponse.status; 0 when the fetch is rejected
                    \* and there is no response
  call,             \* a function of the page and its arguments
  result,           \* what the function returned, and inside cleanLaTeX
                    \* the state of its while loop
  feed,             \* what streamChat's fetch is answered by: "relay", or
                    \* "direct" for the backend's bytes as they are, or
                    \* "tee" for the same after the relay has read them too;
                    \* "client" when the relay is called by another client
                    \* and there is no turn of the page; "none" when only
                    \* functions of the page are called
  relayPc,          \* "idle", "reading", "closed", "rejected" (an error
                    \* response was returned), "errored" (controller.error)
  relayResponse,    \* the status and the body of the relay's response
  upstreamRequest,  \* the body of the relay's request to the backend
  upPos,            \* bytes of payload the relay has read
  relayDecoder,     \* the relay's TextDecoder state
  relayBuffer,      \* the relay's buffer
  out,              \* the bytes the relay has enqueued
  turnPc,           \* "idle", "fetching", "streaming", "returned"
  consumerPos,      \* bytes of its response body streamChat has read
  consumerDecoder,  \* streamChat's TextDecoder state
  consumerBuffer,   \* streamChat's buffer
  calls,            \* the handler invocations so far, in order
  threw,            \* streamChat rejected and the catch block ran
  sessions,         \* store: session id -> messages
  currentSessionId, \* store
  isStreaming,      \* component state of ChatPage
  firstToken,       \* closure variable of handleSendMessage
  waitingMsg,       \* closure variable of handleSendMessage: the session
                    \* and the id of the assistant message of the turn
  flashPending      \* a flashcard generation request is in flight

relayVars == <<relayPc, relayResponse, upstreamRequest, upPos, relayDecoder,
               relayBuffer, out>>
consumerVars == <<consumerPos, consumerDecoder, consumerBuffer, calls, threw>>
turnVars == <<turnPc, sessions, currentSessionId, isStreaming, firstToken,
              waitingMsg, flashPending>>
inputVars == <<request, payload, backendStatus, feed>>
callVars == <<call, result>>
vars == <<inputVars, callVars, relayVars, consumerVars, turnVars>>

\* backendResponse.ok
backendOk == backendStatus \in 200..299

\* backendResponse.body is a stream unless the status is one without a body.
backendHasBody == backendStatus \notin {204, 205}

NoResponse == [status |-> 0, body |-> streamBody]
NoRequest ==
  [session_id |-> Absent, message |-> Absent, subject |-> Absent,
   max_retrieval_k |-> Absent]
NoMessage == [session |-> "", id |-> 0]
NoCall == [fn |-> "none", a |-> <<>>, b |-> <<>>, text |-> <<>>]
NoResult ==
  [fn |-> "none", content |-> <<>>, text |-> <<>>, rendered |-> <<>>,
   num |-> 0, den |-> 1, searchFrom |-> 0, dollarIndex |-> 0, inserted |-> 0]

\* The state before the user sends a message; the backend's answer to the
\* turn's request is fixed by the environment.
InitPipeline(f, requests, statuses, payloads, errorBodies) ==
  /\ feed = f
  /\ request \in requests
  /\ backendStatus \in statuses
  /\ payload \in (IF backendStatus = 0 \/ ~backendHasBody THEN {<<>>}
                  ELSE IF backendOk THEN payloads ELSE errorBodies)
  /\ relayPc = "idle"
  /\ relayResponse = NoResponse
  /\ upstreamRequest = NoRequest
  /\ upPos = 0
  /\ relayDecoder = <<>>
  /\ relayBuffer = <<>>
  /\ out = <<>>
  /\ turnPc = "idle"
  /\ consumerPos = 0
  /\ consumerDecoder = <<>>
  /\ consumerBuffer = <<>>
  /\ calls = <<>>
  /\ threw = FALSE
  /\ sessions = InitSessions
  /\ currentSessionId = "s1"
  /\ isStreaming = FALSE
  /\ firstToken = FALSE
  /\ waitingMsg = NoMessage
  /\ flashPending = FALSE

InitFrom(f, requests, statuses, payloads, errorBodies) ==
  /\ InitPipeline(f, requests, statuses, payloads, errorBodies)
  /\ call = NoCall
  /\ result = NoResult

\* A turn whose request is the one streamChat sends, answered by a backend
\* that responds, with a stream of lines or with a failure status.
InitWith(f, maxLines) ==
  InitFrom(f, {TurnRequest}, {200, 500}, Payloads(maxLines), {<<>>})

(***************************************************************************)
(* Actions                                                                 *)
(***************************************************************************)
\* handleSendMessage, for a session with a subject and a text that is no
\* flashcard request, up to the call of streamChat: the user message and
\* the waiting message are appended and the composer is disabled.
HandleSendMessage ==
  /\ turnPc = "idle"
  /\ LET s1 == appendMessage(sessions, currentSessionId,
                 newMessage(sessions, currentSessionId, "user", UserText))
         s2 == appendMessage(s1, currentSessionId,
                 newMessage(s1, currentSessionId, "assistant", WaitingText))
     IN /\ sessions' = s2
        /\ waitingMsg' = IF hasCurrentSession(sessions, currentSessionId)
                         THEN [session |-> currentSessionId,
                               id |-> Last(s2[currentSessionId]).id]
                         ELSE NoMessage
  /\ isStreaming' = TRUE
  /\ firstToken' = TRUE
  /\ turnPc' = "fetching"
  /\ UNCHANGED <<inputVars, callVars, relayVars, consumerVars, currentSessionId,
                 flashPending>>

\* backendResponse.text(): the whole body decoded.
responseText(bytes) == decodeBytes(bytes, TRUE)

\* The message of the error a rejected fetch throws.
FetchFailedText == <<"fetch failed">>

\* The body of the fetch to the backend: session id, message and subject of
\* the validated request, and its retrieval depth or 5.
backendRequest(data) ==
  [session_id |-> data.sessionId, message |-> data.message,
   subject |-> data.subject,
   max_retrieval_k |-> IF data.max_retrieval_k.kind = "undefined"
                       THEN NumOf(2 * 5) ELSE data.max_retrieval_k]

\* The response to a request that failed the schema.
invalidRequestResponse(issues) ==
  [status |-> 400,
   body |-> errorBody(<<"Invalid request data">>, detailOf(issues))]

\* The error response that always carries status 500.
backendErrorResponseFixedStatus(status, bytes) ==
  [status |-> 500,
   body |-> errorBody(<<"Backend error: ">> \o responseText(bytes), <<>>)]

\* The response to a non-success status of the backend.
backendErrorResponse(status, bytes) ==
  [status |-> status,
   body |-> errorBody(<<"Backend error: ">> \o responseText(bytes), <<>>)]

\* POST up to the return of its response: a request that fails the schema
\* is answered by 400 before any fetch, a rejected fetch by 500 from the
\* outer catch, a non-success status of the backend by that status and its
\* body text; otherwise the response carries the stream, which is put into
\* error at once when the backend's response has no body.
RelayPOST ==
  /\ relayPc = "idle"
  /\ feed \in {"relay", "tee", "client"}
  /\ feed = "client" \/ turnPc # "idle"
  /\ \E validationResult \in {ChatRequestSchema(request)} :
       IF ~validationResult.success
       THEN /\ relayPc' = "rejected"
            /\ relayResponse' =
                 invalidRequestResponse(validationResult.issues)
            /\ UNCHANGED upstreamRequest
       ELSE /\ upstreamRequest' = backendRequest(request)
            /\ IF backendStatus = 0
               THEN /\ relayPc' = "rejected"
                    /\ relayResponse' =
                         [status |-> 500,
                          body |-> errorBody(FetchFailedText, <<>>)]
               ELSE IF ~backendOk
               THEN /\ relayPc' = "rejected"
                    /\ relayResponse' =
                         backendErrorResponse(backendStatus, payload)
               ELSE /\ relayPc' =
                         IF backendHasBody THEN "reading" ELSE "errored"
                    /\ relayResponse' = [status |-> 200, body |-> streamBody]
  /\ UNCHANGED <<inputVars, callVars, upPos, relayDecoder, relayBuffer, out,
                 consumerVars, turnVars>>

\* One iteration of the relay's read loop: reader.read() returns the next n
\* bytes.
RelayRead ==
  /\ relayPc = "reading"
  /\ \E n \in ChunkSizes(Len(payload) - upPos) :
     \E r \in {RelayChunk(relayDecoder, relayBuffer,
                           SubSeq(payload, upPos + 1, upPos + n))} :
          /\ upPos' = upPos + n
          /\ relayDecoder' = r.pending
          /\ relayBuffer' = r.buffer
          /\ out' = out \o r.enqueued
  /\ UNCHANGED <<inputVars, callVars, relayPc, relayResponse,
                 upstreamRequest, consumerVars, turnVars>>

\* reader.read() of the relay rejects, the connection to the backend being
\* lost: the catch of start puts the output into error.
RelayReadFails ==
  /\ relayPc = "reading"
  /\ relayPc' = "errored"
  /\ UNCHANGED <<inputVars, callVars, relayResponse, upstreamRequest, upPos,
                 relayDecoder, relayBuffer, out, consumerVars, turnVars>>

\* reader.read() reports done: the remaining buffer is processed and the
\* output is closed.
RelayEnd ==
  /\ relayPc = "reading"
  /\ upPos = Len(payload)
  /\ out' = out \o encode(RelayRemaining(relayBuffer))
  /\ relayPc' = "closed"
  /\ UNCHANGED <<inputVars, callVars, relayResponse, upstreamRequest, upPos,
                 relayDecoder, relayBuffer,
                 consumerVars, turnVars>>

\* The response body streamChat reads, as far as it exists, and whether it
\* has ended.
body == IF feed = "relay" THEN out ELSE payload
bodyEnded == IF feed = "relay" THEN relayPc = "closed" ELSE TRUE
respArrived ==
  CASE feed = "relay" -> relayPc # "idle"
    [] feed = "tee" -> relayPc \in {"closed", "rejected"}
    [] feed = "direct" -> TRUE
\* A check of resp.ok that every response passes.
respOkAlways == TRUE

respOk ==
  IF feed = "relay" THEN relayResponse.status \in 200..299 ELSE backendOk
respHasBody == IF feed = "relay" THEN TRUE ELSE backendHasBody

\* The catch block of handleSendMessage.
CatchChatError(s) ==
  /\ sessions' = updateLastMessage(s, currentSessionId, ApologyText)
  /\ isStreaming' = FALSE
  /\ threw' = TRUE
  /\ turnPc' = "returned"

\* streamChat's fetch settles: a rejected fetch, a response that is not ok
\* and a response without a body make streamChat throw before it reads
\* anything.
StreamChatFetch ==
  /\ turnPc = "fetching"
  /\ respArrived
  /\ IF respOk /\ respHasBody
     THEN /\ turnPc' = "streaming"
          /\ UNCHANGED <<sessions, isStreaming, threw>>
     ELSE CatchChatError(sessions)
  /\ UNCHANGED <<inputVars, callVars, relayVars, consumerPos, consumerDecoder,
                 consumerBuffer, calls, currentSessionId, firstToken,
                 waitingMsg, flashPending>>

\* One iteration of streamChat's read loop: reader.read() returns the next n
\* bytes and every complete part is dispatched.
StreamChatRead ==
  /\ turnPc = "streaming"
  /\ \E n \in ChunkSizes(Len(body) - consumerPos) :
     \E r \in {ConsumerChunk(
                  consumerDecoder, consumerBuffer,
                  SubSeq(body, consumerPos + 1, consumerPos + n),
                  [sessions |-> sessions, isStreaming |-> isStreaming,
                   firstToken |-> firstToken, flashPending |-> flashPending,
                   calls |-> calls, threw |-> FALSE],
                  currentSessionId)} :
          /\ consumerPos' = consumerPos + n
          /\ consumerDecoder' = r.pending
          /\ consumerBuffer' = r.buffer
          /\ calls' = r.hs.calls
          /\ firstToken' = r.hs.firstToken
          /\ flashPending' = r.hs.flashPending
          /\ IF r.hs.threw
             THEN CatchChatError(r.hs.sessions)
             ELSE /\ sessions' = r.hs.sessions
                  /\ isStreaming' = r.hs.isStreaming
                  /\ UNCHANGED <<threw, turnPc>>
  /\ UNCHANGED <<inputVars, callVars, relayVars, currentSessionId,
                 waitingMsg>>

\* reader.read() of streamChat rejects, the relay's output being in error:
\* streamChat throws and the catch block runs.
StreamChatReadFails ==
  /\ turnPc = "streaming"
  /\ feed = "relay"
  /\ relayPc = "errored"
  /\ CatchChatError(sessions)
  /\ UNCHANGED <<inputVars, callVars, relayVars, consumerPos,
                 consumerDecoder, consumerBuffer, calls, currentSessionId,
                 firstToken, waitingMsg, flashPending>>

\* reader.read() reports done: streamChat returns, and with it
\* handleSendMessage.
StreamChatEnd ==
  /\ turnPc = "streaming"
  /\ bodyEnded
  /\ consumerPos = Len(body)
  /\ turnPc' = "returned"
  /\ UNCHANGED <<inputVars, callVars, relayVars, consumerVars, sessions,
                 currentSessionId, isStreaming, firstToken, waitingMsg,
                 flashPending>>

\* The flashcard request started by a tool event settles: the last message
\* is replaced by the outcome text.
FlashcardsSettled ==
  /\ flashPending
  /\ \E text \in {FlashcardsReadyText, FlashcardsEmptyText,
                  FlashcardsErrorText} :
       sessions' = updateLastMessage(sessions, currentSessionId, text)
  /\ flashPending' = FALSE
  /\ UNCHANGED <<inputVars, callVars, relayVars, consumerVars, turnPc,
                 currentSessionId, isStreaming, firstToken, waitingMsg>>

\* The user opens another session from the sidebar: loadSession.
LoadSession ==
  /\ \E id \in SessionIds \ {currentSessionId} : currentSessionId' = id
  /\ UNCHANGED <<inputVars, callVars, relayVars, consumerVars, turnPc,
                 sessions, isStreaming, firstToken, waitingMsg,
                 flashPending>>

(***************************************************************************)
(* The functions of the page applied to texts: calculateSimilarity, the    *)
(* content onDone computes for the accumulated text of a message,          *)
(* cleanLaTeX, and the cleanLaTeX of MessageBubble when the stored content *)
(* is rendered.                                                            *)
(***************************************************************************)
MaxWords == 3
MaxPieces == 4

RECURSIVE JoinWords(_)
\* The words with one space between them.
JoinWords(ws) ==
  IF ws = <<>> THEN <<>>
  ELSE IF Len(ws) = 1 THEN Head(ws)
  ELSE Head(ws) \o <<" ">> \o JoinWords(Tail(ws))

\* Texts of up to MaxWords words: two words longer than three characters and
\* a short one.
SimilarityTexts ==
  {JoinWords(ws) :
     ws \in UNION {[1..n -> {<<"a", "b", "c", "d">>, <<"w", "x", "y", "z">>,
                             <<"a", "b">>}] : n \in 0..MaxWords}}

\* Texts of up to MaxPieces pieces: a dollar sign, a letter, a space, the
\* role prefix.
CleanTexts ==
  {Flatten(ps) :
     ps \in UNION {[1..n -> {<<Dollar>>, <<"x">>, <<" ">>, RolePrefix}] :
                     n \in 0..MaxPieces}}

\* The least length a half must exceed for the halves check of onDone, and
\* the length of a section's signature.
HalfLength == 100
SignatureLength == 150

\* A text of n characters, words of six letters with a space between them.
Filler(n) ==
  [i \in 1..n |-> <<"a", "b", "c", "d", "e", "f", " ">>[((i - 1) % 7) + 1]]

\* The texts A of a doubled message A + A: at and just above the length of
\* the halves check, bare or with white space around.
DoubledTexts ==
  {lead \o Filler(n) \o trail :
     lead \in {<<>>, <<" ">>}, trail \in {<<>>, <<" ">>, <<"\n">>},
     n \in {HalfLength, HalfLength + 1}}

\* The texts A and B of a message A, B, A: short sections that differ in
\* their letters, their case or their white space only, a section above the
\* length of the halves check, and two sections that differ only after the
\* length of the signature.
SectionTexts ==
  {<<"a", "b", "c", "d">>, <<"A", "b", "c", "d">>, <<"a", "b", "c", "d", " ">>,
   <<"w", "x", "y", "z">>, <<"w", "x", " ", "y", "z">>,
   <<"w", "x", " ", " ", "y", "z">>, <<"a", "b", "c">>,
   Filler(HalfLength + 1),
   Filler(SignatureLength) \o <<"x">>, Filler(SignatureLength) \o <<"y">>}

BlankLine == <<"\n", "\n">>

\* A text of n characters in other words than those of Filler.
OtherFiller(n) ==
  [i \in 1..n |-> <<"u", "v", "w", "x", "y", "z", " ">>[((i - 1) % 7) + 1]]

\* A text above the length of the halves check that starts with the same
\* short section twice.
RepeatedStart ==
  <<"p", "q">> \o BlankLine \o <<"p", "q">> \o BlankLine
  \o Filler(HalfLength + 1)

\* Messages whose halves are both above the length of the halves check and
\* hold a repeated section: the halves alike, and the halves without a
\* word in common.
HalvesCalls ==
  {[fn |-> "onDone", a |-> RepeatedStart, b |-> <<>>,
    text |-> RepeatedStart \o RepeatedStart],
   [fn |-> "onDone", a |-> RepeatedStart,
    b |-> <<" ">> \o OtherFiller(HalfLength + 10),
    text |-> RepeatedStart \o <<" ">> \o OtherFiller(HalfLength + 10)]}

\* A text of n characters, words of two letters with a space between them.
ShortFiller(n) == [i \in 1..n |-> <<"a", "b", " ">>[((i - 1) % 3) + 1]]

\* Sections: short ones that differ in case or white space, two that differ
\* in their character 151 and hold a double space before it, two that
\* differ in a double space at their start and are longer than a signature,
\* and two that differ after the length of a signature.
SignatureTexts ==
  {<<"a", "b", " ", "c", "d">>, <<"a", "b", " ", " ", "c", "d">>,
   <<"A", "B", " ", "c", "d">>, <<" ", "a", "b", " ", "c", "d">>,
   <<"a", "b", " ", " ">> \o ShortFiller(SignatureLength - 4) \o <<"x">>,
   <<"a", "b", " ", " ">> \o ShortFiller(SignatureLength - 4) \o <<"y">>,
   <<"a", " ", " ">> \o ShortFiller(SignatureLength + 50),
   <<"a", " ">> \o ShortFiller(SignatureLength + 50),
   Filler(SignatureLength) \o <<"x">>, Filler(SignatureLength) \o <<"y">>}

Calls ==
  {[fn |-> "calculateSimilarity", a |-> a, b |-> b, text |-> <<>>] :
     a \in SimilarityTexts, b \in SimilarityTexts}
  \cup {[fn |-> "normalized", a |-> a, b |-> b, text |-> <<>>] :
          a \in SignatureTexts, b \in SignatureTexts}
  \cup {[fn |-> "cleanLaTeX", a |-> <<>>, b |-> <<>>, text |-> t] :
          t \in CleanTexts}
  \cup {[fn |-> "onDone", a |-> a, b |-> <<>>, text |-> a \o a] :
          a \in DoubledTexts}
  \cup {[fn |-> "onDone", a |-> a, b |-> b,
          text |-> a \o BlankLine \o b \o BlankLine \o a] :
          a \in SectionTexts, b \in SectionTexts}
  \cup HalvesCalls

\* The texts of cleanLaTeX: one formula in brackets, bare or inside a
\* sentence; lines with and without the role prefix; and formulas in dollar
\* delimiters, well-formed and not, one after the other.
MaxFormulas == 3

Open == <<"<", "<", "<">>
Close == <<">", ">", ">">>
Letters(n) == [i \in 1..n |-> "a"]
InlineLength == 40
EquationLength == 15

\* The contents of a formula: a variable, bare and between spaces, each of
\* the constructs of display math, contents at and above the two lengths,
\* a line break, and a comparison.
FormulaContents ==
  {<<"x">>, <<" ", "x", " ">>,
   <<Backslash, "f", "r", "a", "c", "1", "2">>,
   <<Backslash, "s", "u", "m", "x">>,
   <<Backslash, "b", "a", "r", "x">>,
   <<"a", Backslash, "t", "i", "m", "e", "s", "b">>,
   <<"a", Backslash, "r", "i", "g", "h", "t", "a", "r", "r", "o", "w", "b">>,
   <<"a", Backslash, "c", "d", "o", "t", "b">>,
   <<"=">> \o Letters(EquationLength - 1), <<"=">> \o Letters(EquationLength),
   Letters(InlineLength), Letters(InlineLength + 1),
   <<"a", "\n", "b">>, <<"a", ">", "b">>}

Before == {<<>>, <<"t", " ">>}
After == {<<>>, <<" ", "t">>}

FormulaCalls ==
  {[fn |-> "cleanLaTeX", a |-> c, b |-> <<>>,
    text |-> pre \o Open \o c \o Close \o post] :
     c \in FormulaContents, pre \in Before, post \in After}

CapitalPrefix == <<"A">> \o Tail(RolePrefix)

\* Texts of up to MaxPieces pieces: the role prefix in either case, a space,
\* a line break, a letter.
PrefixTexts ==
  {Flatten(ps) :
     ps \in UNION {[1..n -> {RolePrefix, CapitalPrefix, <<" ">>, <<"\n">>,
                             <<"h">>}] : n \in 0..MaxPieces}}

\* Texts of up to MaxFormulas pieces: a block formula, an inline formula, a
\* block closed by a single dollar, an inline formula closed by two, a block
\* left open, a block with a dollar inside, a block of a single variable, a
\* word between spaces.
DelimiterTexts ==
  {Flatten(ps) :
     ps \in UNION {[1..n -> {<<Dollar, Dollar, "a", "b", Dollar, Dollar>>,
                             <<Dollar, "c", Dollar>>,
                             <<Dollar, Dollar, "a", "b", Dollar>>,
                             <<Dollar, "c", Dollar, Dollar>>,
                             <<Dollar, Dollar, "a", "b">>,
                             <<Dollar, Dollar, "a", Dollar, "b", Dollar, Dollar>>,
                             <<Dollar, Dollar, "y", Dollar, Dollar>>,
                             <<" ", "w", " ">>}] : n \in 0..MaxFormulas}}

NormalizerCalls ==
  FormulaCalls
  \cup {[fn |-> "cleanLaTeX", a |-> <<>>, b |-> <<>>, text |-> t] :
          t \in PrefixTexts \cup DelimiterTexts}

CalculateSimilarity ==
  /\ call.fn = "calculateSimilarity"
  /\ result = NoResult
  /\ \E similarity \in {calculateSimilarity(call.a, call.b)} :
       result' = [NoResult EXCEPT !.fn = "calculateSimilarity",
                                  !.num = similarity.num,
                                  !.den = similarity.den]
  /\ UNCHANGED <<inputVars, call, relayVars, consumerVars, turnVars>>

\* The signatures the paragraph check of onDone computes for two sections.
Normalized ==
  /\ call.fn = "normalized"
  /\ result = NoResult
  /\ result' = [NoResult EXCEPT !.fn = "normalized",
                                !.content = normalized(call.a),
                                !.text = normalized(call.b)]
  /\ UNCHANGED <<inputVars, call, relayVars, consumerVars, turnVars>>

\* The content onDone computes for a last message that holds call.text.
Finalize ==
  /\ call.fn = "onDone"
  /\ result = NoResult
  /\ result' = [NoResult EXCEPT !.fn = "onDone",
                                !.content = dedupedContent(call.text),
                                !.text = finalContent(call.text)]
  /\ UNCHANGED <<inputVars, call, relayVars, consumerVars, turnVars>>

CleanLaTeX ==
  /\ call.fn = "cleanLaTeX"
  /\ result = NoResult
  /\ result' = [NoResult EXCEPT !.fn = "cleanLaTeX",
                                !.text = cleanLaTeX(call.text)]
  /\ UNCHANGED <<inputVars, call, relayVars, consumerVars, turnVars>>

\* cleanLaTeX up to its while loop.
BeforeScan ==
  /\ call.fn = "cleanLaTeX"
  /\ result = NoResult
  /\ result' = [NoResult EXCEPT !.fn = "scan",
                                !.text = beforeScan(call.text),
                                !.searchFrom = 1]
  /\ UNCHANGED <<inputVars, call, relayVars, consumerVars, turnVars>>

\* One iteration of the while loop; the iteration that breaks leaves it.
Scan ==
  /\ result.fn = "scan"
  /\ \E s \in {scanStep(result.text, result.searchFrom)} :
       result' = [result EXCEPT !.fn = IF s.done THEN "scanned" ELSE "scan",
                                !.text = s.cleaned,
                                !.searchFrom = s.searchFrom,
                                !.dollarIndex = s.dollarIndex,
                                !.inserted = s.inserted]
  /\ UNCHANGED <<inputVars, call, relayVars, consumerVars, turnVars>>

\* cleanLaTeX after its while loop, up to its return.
AfterScan ==
  /\ result.fn = "scanned"
  /\ result' = [NoResult EXCEPT !.fn = "cleanLaTeX",
                                !.content = result.text,
                                !.text = afterScan(result.text)]
  /\ UNCHANGED <<inputVars, call, relayVars, consumerVars, turnVars>>

\* MessageBubble renders an assistant message whose content is what
\* cleanLaTeX or onDone returned.
MessageBubble ==
  /\ result.fn \in {"cleanLaTeX", "onDone"}
  /\ result' = [result EXCEPT !.fn = "MessageBubble",
                              !.rendered = cleanLaTeX(result.text)]
  /\ UNCHANGED <<inputVars, call, relayVars, consumerVars, turnVars>>

(***************************************************************************)
(* Specifications                                                          *)
(***************************************************************************)
\* The whole pipeline: streamChat reads what the relay writes.
Init == InitWith("relay", MaxPipelineLines)

Next ==
  \/ HandleSendMessage
  \/ RelayPOST
  \/ RelayRead
  \/ RelayEnd
  \/ StreamChatFetch
  \/ StreamChatRead
  \/ StreamChatEnd

Spec == Init /\ [][Next]_vars

\* The relay alone, its output left unread.
InitRelay == InitWith("relay", MaxLines)

NextRelay ==
  \/ HandleSendMessage
  \/ RelayPOST
  \/ RelayRead
  \/ RelayEnd

SpecRelay == InitRelay /\ [][NextRelay]_vars

\* streamChat alone, reading the backend's bytes as they are.
InitConsumer ==
  InitFrom("direct", {TurnRequest}, {0, 200, 204, 500}, Payloads(MaxLines),
           ErrorBodies \cup {LDeltaA \o <<NL>>})

NextConsumer ==
  \/ HandleSendMessage
  \/ StreamChatFetch
  \/ StreamChatRead
  \/ StreamChatEnd
  \/ FlashcardsSettled

SpecConsumer == InitConsumer /\ [][NextConsumer]_vars

\* Relay and streamChat each given the same bytes of the backend, one after
\* the other: first the relay reads them to the end, then streamChat.
InitTee == InitWith("tee", MaxPipelineLines)

NextTee ==
  \/ HandleSendMessage
  \/ RelayPOST
  \/ RelayRead
  \/ RelayEnd
  \/ StreamChatFetch
  \/ StreamChatRead
  \/ StreamChatEnd
  \/ FlashcardsSettled

SpecTee == InitTee /\ [][NextTee]_vars

\* A turn of delta and done lines through the relay, with a backend that may
\* also fail before or while it streams, and a user who may open another
\* session at any time.
MaxTurnLines == 2

TurnPayloads ==
  {JoinLines(ls, t) :
     ls \in UNION {[1..n -> {LDeltaA, LDeltaE, LDone}] : n \in 0..MaxTurnLines},
     t \in BOOLEAN}

InitTurn ==
  InitFrom("relay", {TurnRequest}, {0, 200, 204, 500}, TurnPayloads, {<<>>})

NextTurn ==
  \/ HandleSendMessage
  \/ RelayPOST
  \/ RelayRead
  \/ RelayReadFails
  \/ RelayEnd
  \/ StreamChatFetch
  \/ StreamChatRead
  \/ StreamChatReadFails
  \/ StreamChatEnd
  \/ LoadSession

SpecTurn == InitTurn /\ [][NextTurn]_vars

\* The functions alone, each called once on every text of its domain.
InitFunctions ==
  /\ InitPipeline("none", {TurnRequest}, {200}, {<<>>}, {<<>>})
  /\ call \in Calls
  /\ result = NoResult

NextFunctions ==
  \/ CalculateSimilarity
  \/ Normalized
  \/ Finalize
  \/ CleanLaTeX
  \/ MessageBubble

SpecFunctions == InitFunctions /\ [][NextFunctions]_vars

\* cleanLaTeX alone, its while loop one iteration at a time.
InitNormalizer ==
  /\ InitPipeline("none", {TurnRequest}, {200}, {<<>>}, {<<>>})
  /\ call \in NormalizerCalls
  /\ result = NoResult

NextNormalizer ==
  \/ BeforeScan
  \/ Scan
  \/ AfterScan

SpecNormalizer == InitNormalizer /\ [][NextNormalizer]_vars

\* The relay called by any client, with requests at and around the limits of
\* the schema, and a backend that is unreachable, answers with a failure
\* status, answers without a body, or streams.
PostPayloads == {<<>>, LDeltaA \o <<NL>>, LTool}

InitPOST ==
  InitFrom("client", Requests, {0, 200, 204, 404, 503}, PostPayloads,
           ErrorBodies)

NextPOST ==
  \/ RelayPOST
  \/ RelayRead
  \/ RelayReadFails
  \/ RelayEnd

SpecPOST == InitPOST /\ [][NextPOST]_vars

\* A turn of delta lines, with and without the role prefix, and done lines
\* through the relay, the user staying in the session.
MaxTokenLines == 3

TokenPayloads ==
  {JoinLines(ls, TRUE) :
     ls \in UNION {[1..n -> {LDeltaA, LDeltaRole, LDone}] :
                     n \in 0..MaxTokenLines}}

InitTokens == InitFrom("relay", {TurnRequest}, {200}, TokenPayloads, {<<>>})

NextTokens ==
  \/ HandleSendMessage
  \/ RelayPOST
  \/ RelayRead
  \/ RelayEnd
  \/ StreamChatFetch
  \/ StreamChatRead
  \/ StreamChatEnd

SpecTokens == InitTokens /\ [][NextTokens]_vars

(***************************************************************************)
(* Definitions used to state the properties                                *)
(***************************************************************************)
\* The text a byte sequence decodes to as a whole.
textOf(bytes) == decodeStream(<<>>, bytes).text

\* The lines of a byte sequence that are followed by a separator.
completeLines(bytes) == Front(split(textOf(bytes)))

IsJSON(line) == JSONparse(line).ok
IsJSONOrBlank(line) == IsBlank(line) \/ IsJSON(line)
FailsSchema(line) ==
  IsJSON(line) /\ ~ChatStreamEventSchema(JSONparse(line).val).success
IsEvent(line) ==
  IsJSON(line) /\ ChatStreamEventSchema(JSONparse(line).val).success
TypeOf(line) == Get(JSONparse(line).val, "'type'")

\* The relay's whole output when the payload p arrives as a single chunk.
RelayWhole(p) ==
  LET r == RelayChunk(<<>>, <<>>, p)
  IN r.enqueued \o encode(RelayRemaining(r.buffer))

\* What the relay would still write if the rest of the payload arrived as a
\* single chunk.
RelayRest ==
  LET r == RelayChunk(relayDecoder, relayBuffer,
                      SubSeq(payload, upPos + 1, Len(payload)))
  IN r.enqueued \o encode(RelayRemaining(r.buffer))

\* The handler state when streamChat is called.
StartedHs ==
  LET s0 == InitSessions
      s1 == appendMessage(s0, "s1", newMessage(s0, "s1", "user", UserText))
      s2 == appendMessage(s1, "s1",
              newMessage(s1, "s1", "assistant", WaitingText))
  IN [sessions |-> s2, isStreaming |-> TRUE, firstToken |-> TRUE,
      flashPending |-> FALSE, calls |-> <<>>, threw |-> FALSE]

\* The handler state after streamChat read the body p as a single chunk.
ConsumerWhole(p) == ConsumerChunk(<<>>, <<>>, p, StartedHs, "s1").hs

IsPrefix(a, b) == Len(a) <= Len(b) /\ a = SubSeq(b, 1, Len(a))

(***************************************************************************)
(* C1: chunk-split invariance of the relay.  For a payload all of whose    *)
(* lines are JSON, whatever chunks the relay has read so far, what it has  *)
(* written followed by what it would write for the rest in one chunk is    *)
(* what it writes for the whole payload in one chunk; once closed, its     *)
(* output is the single-chunk output.                                      *)
(***************************************************************************)
ValidNDJSON(p) ==
  \A i \in 1..Len(split(textOf(p))) : IsJSONOrBlank(split(textOf(p))[i])

C1_ChunkSplitInvariance ==
  ValidNDJSON(payload) =>
    /\ relayPc = "reading" => out \o RelayRest = RelayWhole(payload)
    /\ relayPc = "closed" => out = RelayWhole(payload)

\* An event has been written and the last chunk ended inside the two-byte
\* character of a later line.
C1_Witness ==
  /\ ValidNDJSON(payload)
  /\ relayPc = "reading"
  /\ out # <<>>
  /\ relayDecoder # <<>>
  /\ relayBuffer # <<>>

(***************************************************************************)
(* C2: relay output safety.  Whatever the upstream bytes, the relay's      *)
(* output is a sequence of newline-terminated lines, each the              *)
(* serialization of a value that satisfies the StreamEvent schema.         *)
(***************************************************************************)
C2_RelayOutputSafety ==
  LET d == decodeStream(<<>>, out)
      ls == split(d.text)
  IN /\ d.pending = <<>>
     /\ Last(ls) = <<>>
     /\ \A i \in 1..(Len(ls) - 1) :
          /\ IsEvent(ls[i])
          /\ JSONstringify(JSONparse(ls[i]).val) = ls[i]

\* The relay has closed after writing two lines for a payload with a line
\* that is JSON but fails the schema.
C2_Witness ==
  /\ relayPc = "closed"
  /\ Len(completeLines(out)) >= 2
  /\ \E i \in 1..Len(completeLines(payload)) :
       FailsSchema(completeLines(payload)[i])

(***************************************************************************)
(* C3: a complete line that is JSON but fails the schema yields exactly    *)
(* one synthetic error event, in the line's position, and later lines are  *)
(* processed: the lines written for the complete lines read so far are,    *)
(* in order, nothing for a blank or non-JSON line, the validated event     *)
(* for an event, and the synthetic error event for any other JSON value.   *)
(***************************************************************************)
SyntheticErrorLine ==
  <<"{", "'type'", ":", "'error'", ",", "'message'", ":",
    "'Invalid event format from backend'", ",", "'code'", ":",
    "'validation_error'", "}">>

LineImage(line) ==
  IF IsBlank(line) \/ ~IsJSON(line) THEN <<>>
  ELSE IF IsEvent(line)
  THEN <<JSONstringify(ChatStreamEventSchema(JSONparse(line).val).data)>>
  ELSE <<SyntheticErrorLine>>

ExpectedLines(lines) ==
  Flatten([i \in 1..Len(lines) |-> LineImage(lines[i])])

C3_SchemaInvalidLineYieldsOneError ==
  relayPc \in {"reading", "closed"} =>
    LET expected == ExpectedLines(completeLines(SubSeq(payload, 1, upPos)))
        written == completeLines(out)
    IN IF relayPc = "reading"
       THEN written = expected
       ELSE IsPrefix(expected, written) /\ Len(written) <= Len(expected) + 1

\* The relay has closed on a payload in which a complete schema-invalid line
\* is followed by a complete event line.
C3_Witness ==
  /\ relayPc = "closed"
  /\ \E i, j \in 1..Len(completeLines(payload)) :
       /\ i < j
       /\ FailsSchema(completeLines(payload)[i])
       /\ IsEvent(completeLines(payload)[j])
  /\ Len(completeLines(out)) >= 2

(***************************************************************************)
(* C4: a line that is not JSON is skipped by the relay and by the          *)
(* consumer.  The relay writes what it writes for the payload without its  *)
(* complete non-JSON lines; the consumer ends as it ends for that payload, *)
(* having invoked the handlers it invokes for it (it throws only where it  *)
(* throws without the non-JSON lines, on a line that is the JSON null).    *)
(***************************************************************************)
RECURSIVE JoinText(_)
JoinText(lines) ==
  IF lines = <<>> THEN <<>>
  ELSE Head(lines) \o <<NL>> \o JoinText(Tail(lines))

WithoutNonJSON(p) ==
  LET lines == split(textOf(p))
  IN encode(JoinText(SelectSeq(Front(lines), IsJSONOrBlank)) \o Last(lines))

C4_NonJSONLineSkipped ==
  /\ relayPc = "closed" => out = RelayWhole(WithoutNonJSON(payload))
  /\ (turnPc = "returned" /\ backendOk) =>
       /\ threw = ConsumerWhole(WithoutNonJSON(payload)).threw
       /\ calls = ConsumerWhole(WithoutNonJSON(payload)).calls

\* Relay and consumer are through a payload in which a complete non-JSON
\* line is followed by a complete delta line, which both have processed.
C4_Witness ==
  /\ relayPc = "closed"
  /\ turnPc = "returned"
  /\ \E i, j \in 1..Len(completeLines(payload)) :
       /\ i < j
       /\ ~IsJSONOrBlank(completeLines(payload)[i])
       /\ IsEvent(completeLines(payload)[j])
       /\ TypeOf(completeLines(payload)[j]) = StrV("'delta'")
  /\ out # <<>>
  /\ calls # <<>>

(***************************************************************************)
(* C5: ordering and exactly-once dispatch.  For a body of n delta lines    *)
(* followed by one done line, under any chunking, the handler invocations  *)
(* are at any time a prefix of: the token handler with the n fragments in  *)
(* order, then the completion handler once; and they are all of it when    *)
(* streamChat has returned.                                                *)
(***************************************************************************)
FragmentOf(line) ==
  CASE line = textOf(LDeltaA) -> "'a'"
    [] line = textOf(LDeltaE) -> "'eacute'"

IsDeltaDoneStream(p) ==
  LET lines == split(textOf(p)) IN
  /\ Len(lines) >= 2
  /\ Last(lines) = <<>>
  /\ lines[Len(lines) - 1] = LDone
  /\ \A i \in 1..(Len(lines) - 2) :
       lines[i] \in {textOf(LDeltaA), textOf(LDeltaE)}

ExpectedCalls(p) ==
  LET lines == split(textOf(p)) IN
  [i \in 1..(Len(lines) - 1) |->
     IF i < Len(lines) - 1
     THEN Call("onToken", StrV(FragmentOf(lines[i])), UndefV)
     ELSE Call("onDone",
               ObjV(<<[key |-> "'type'", val |-> StrV("'done'")]>>), UndefV)]

C5_OrderedExactlyOnceDispatch ==
  IsDeltaDoneStream(payload) =>
    /\ IsPrefix(calls, ExpectedCalls(payload))
    /\ turnPc = "returned" => (calls = ExpectedCalls(payload) /\ ~threw)

\* streamChat has returned from a body of two deltas and a done.
C5_Witness ==
  /\ IsDeltaDoneStream(payload)
  /\ turnPc = "returned"
  /\ Len(calls) = 3

(***************************************************************************)
(* C6: a well-formed tool event of the backend passes the relay unchanged  *)
(* and makes the consumer invoke the tool handler with its name and        *)
(* arguments.                                                              *)
(***************************************************************************)
HasCompleteLine(bytes, line) ==
  \E i \in 1..Len(completeLines(bytes)) : completeLines(bytes)[i] = line

C6_ToolEventDelivered ==
  HasCompleteLine(payload, LTool) =>
    /\ relayPc = "closed" => HasCompleteLine(out, LTool)
    /\ (turnPc = "returned" /\ ~threw) =>
         \E k \in 1..Len(calls) :
           calls[k] = Call("onTool", StrV("'generateFlashcards'"), ObjV(<<>>))

\* Relay and streamChat are through a payload that is one tool event line:
\* the relay wrote the synthetic error event in its place and no handler was
\* invoked.
C6_Failure ==
  /\ payload = LTool \o <<NL>>
  /\ relayPc = "closed"
  /\ turnPc = "returned"
  /\ completeLines(out) = <<SyntheticErrorLine>>
  /\ calls = <<>>

(***************************************************************************)
(* C7: a done event with an extra field (messageId) is accepted and        *)
(* forwarded as a done event and makes the consumer invoke the completion  *)
(* handler: the completion handler has run once for every complete done    *)
(* line of the backend when streamChat has returned.                       *)
(***************************************************************************)
IsDoneLine(line) == IsJSON(line) /\ TypeOf(line) = StrV("'done'")
IsDoneCall(c) == c.h = "onDone"

C7_DoneWithExtraFieldsCompletes ==
  (turnPc = "returned" /\ ~threw) =>
    Len(SelectSeq(calls, IsDoneCall))
      = Len(SelectSeq(completeLines(payload), IsDoneLine))

\* Relay and streamChat are through a delta and a done event with a
\* messageId: the relay wrote the synthetic error event for the done event
\* and the completion handler was not invoked.
C7_Failure ==
  /\ payload = LDeltaA \o <<NL>> \o LDoneId \o <<NL>>
  /\ relayPc = "closed"
  /\ turnPc = "returned"
  /\ ~threw
  /\ completeLines(out) = <<LDeltaA, SyntheticErrorLine>>
  /\ calls = <<Call("onToken", StrV("'a'"), UndefV)>>

(***************************************************************************)
(* C8: an error event that reaches the consumer is propagated to the       *)
(* caller as a failure: when streamChat is through a body with a complete  *)
(* error event line, it has thrown.                                        *)
(***************************************************************************)
IsErrorLine(line) == IsJSON(line) /\ TypeOf(line) = StrV("'error'")

C8_ErrorEventSurfaced ==
  (turnPc = "returned"
   /\ Len(SelectSeq(completeLines(body), IsErrorLine)) > 0)
    => threw

\* streamChat has returned normally from a body that is the backend's error
\* event, forwarded by the relay; no handler was invoked.
C8_Failure ==
  /\ payload = LError \o <<NL>>
  /\ completeLines(body) = <<LError>>
  /\ turnPc = "returned"
  /\ ~threw
  /\ calls = <<>>

(***************************************************************************)
(* C9: after the completion handler no handler is invoked: an invocation   *)
(* of the completion handler is the last invocation.                       *)
(***************************************************************************)
C9_NothingDispatchedAfterDone ==
  \A k \in 1..Len(calls) : calls[k].h = "onDone" => k = Len(calls)

\* The token handler was invoked after the completion handler.
C9_Failure ==
  /\ payload = LDone \o <<NL>> \o LDeltaA \o <<NL>>
  /\ calls = <<Call("onDone",
                    ObjV(<<[key |-> "'type'", val |-> StrV("'done'")]>>),
                    UndefV),
               Call("onToken", StrV("'a'"), UndefV)>>

(***************************************************************************)
(* C10: every turn is finalized: when handleSendMessage has returned,      *)
(* whether the stream delivered done, delivered an error event or just     *)
(* ended, the turn has left the streaming state.                           *)
(***************************************************************************)
C10_TurnFinalized ==
  turnPc = "returned" => ~isStreaming

\* The stream delivered one delta and ended: handleSendMessage has returned
\* and the turn is still in the streaming state.
C10_Failure ==
  /\ payload = LDeltaA \o <<NL>>
  /\ turnPc = "returned"
  /\ ~threw
  /\ isStreaming

(***************************************************************************)
(* C11: when streamChat throws, before or while it streams, the content of *)
(* the assistant message of the turn is replaced by the apology, whatever  *)
(* fragments it held, and the page is no longer streaming.                 *)
(***************************************************************************)
\* The contents of the messages that carry the id of the assistant message
\* handleSendMessage created for the turn, in the session of the turn.
TurnContents ==
  LET ms == sessions[waitingMsg.session] IN
  {ms[i].content : i \in {j \in DOMAIN ms : ms[j].id = waitingMsg.id}}

C11_FatalFailureApology ==
  threw => (TurnContents = {ApologyText} /\ ~isStreaming)

\* The catch block has run while another session was open: the message of
\* the turn does not hold the apology.
C11_Failure ==
  /\ threw
  /\ turnPc = "returned"
  /\ currentSessionId # waitingMsg.session
  /\ TurnContents # {ApologyText}

(***************************************************************************)
(* C12: every fragment of a delta is appended to the assistant message of  *)
(* the turn and to no other message, whatever other store operations are   *)
(* interleaved: while no completion was dispatched and nothing was thrown, *)
(* the message of the turn holds the fragments received so far in order,   *)
(* and every other message holds what it held when it was created.         *)
(***************************************************************************)
RECURSIVE FragmentsOf(_)
\* The fragments of the token handler's invocations, in order.
FragmentsOf(cs) ==
  IF cs = <<>> THEN <<>>
  ELSE (IF Head(cs).h = "onToken" /\ Head(cs).a.kind = "str"
        THEN StrText(Head(cs).a.str) ELSE <<>>)
       \o FragmentsOf(Tail(cs))

HasCall(h) == \E i \in DOMAIN calls : calls[i].h = h

C12_SingleWriter ==
  (turnPc \in {"streaming", "returned"} /\ ~threw /\ ~HasCall("onDone")) =>
    /\ HasCall("onToken") => TurnContents = {FragmentsOf(calls)}
    /\ \A sid \in SessionIds : \A i \in DOMAIN sessions[sid] :
         (sid # waitingMsg.session \/ sessions[sid][i].id # waitingMsg.id)
           => sessions[sid][i].content \in {UserText, OldText}

\* A fragment was appended to the earlier answer of the other session.
C12_Failure ==
  /\ ~threw
  /\ ~HasCall("onDone")
  /\ waitingMsg.session = "s1"
  /\ \E i \in DOMAIN sessions["s2"] :
       /\ Len(sessions["s2"][i].content) > Len(OldText)
       /\ SubSeq(sessions["s2"][i].content, 1, Len(OldText)) = OldText

(***************************************************************************)
(* C13: when the request to the backend fails before a body exists, or the *)
(* backend answers with a non-success status, the relay starts no stream:  *)
(* it returns one error response with the backend's status and the body    *)
(* {error: 'Backend error: <body text of the backend>'}, and writes no     *)
(* line.                                                                   *)
(***************************************************************************)
requestValid == ChatRequestSchema(request).success

C13_UpstreamFailureResponse ==
  (relayPc # "idle" /\ requestValid /\ ~backendOk) =>
    /\ relayPc = "rejected"
    /\ out = <<>>
    /\ relayResponse.status = backendStatus
    /\ relayResponse.body
         = errorBody(<<"Backend error: ">> \o responseText(payload), <<>>)

\* C13 as amended: the response carries the backend's status and body text
\* when the backend answered with a non-success status; when the fetch was
\* rejected and there is no response of the backend, the response has status
\* 500 and the message of the error as its error text.  In both cases no
\* stream is started and no line is written.
C13_UpstreamFailureResponseAmended ==
  (relayPc # "idle" /\ requestValid /\ ~backendOk) =>
    /\ relayPc = "rejected"
    /\ out = <<>>
    /\ backendStatus # 0 =>
         /\ relayResponse.status = backendStatus
         /\ relayResponse.body
              = errorBody(<<"Backend error: ">> \o responseText(payload),
                          <<>>)
    /\ backendStatus = 0 =>
         /\ relayResponse.status = 500
         /\ relayResponse.body = errorBody(FetchFailedText, <<>>)

\* The relay has answered a backend's 503 with body text boom.
C13_Witness ==
  /\ requestValid
  /\ backendStatus = 503
  /\ payload = <<"boom">>
  /\ relayPc = "rejected"
  /\ relayResponse.status = 503

(***************************************************************************)
(* C14: every request that violates the shape (message or subject missing  *)
(* or empty, message longer than 10000, subject longer than 100,           *)
(* max_retrieval_k not an integer of 1..20, syllabus_hints longer than     *)
(* 1000, an unknown field) is answered by status 400 with a detail that    *)
(* has an entry '<field>: <message>' for every violation, and the backend  *)
(* is not called.                                                          *)
(***************************************************************************)
\* The fields of a request that violate the shape, unknown fields included.
ViolatingFields(r) ==
  {f \in {"message", "subject"} : r[f] = Absent \/ r[f] = StrOf(0)}
  \cup {f \in {"message"} : r[f].kind = "string" /\ r[f].len > 10000}
  \cup {f \in {"subject"} : r[f].kind = "string" /\ r[f].len > 100}
  \cup {f \in {"max_retrieval_k"} :
          /\ r[f].kind = "number"
          /\ \/ r[f].halves % 2 # 0
             \/ r[f].halves < 2 * 1
             \/ r[f].halves > 2 * 20}
  \cup {f \in {"syllabus_hints"} : r[f].kind = "string" /\ r[f].len > 1000}
  \cup r.extra

DetailHasEntryFor(f) ==
  \E i \in DOMAIN relayResponse.body.detail :
    relayResponse.body.detail[i].field = f

C15_TrailingBufferFinalPass ==
  relayPc = "closed" =>
    completeLines(out) = ExpectedLines(split(textOf(payload)))

\* The relay has closed on a payload that is one tool event without a
\* separator after it, and has written nothing.
C15_Failure ==
  /\ payload = LTool
  /\ relayPc = "closed"
  /\ out = <<>>

(***************************************************************************)
(* C16: when the response to streamChat's fetch is not successful or has   *)
(* no readable body, streamChat throws before it invokes any handler: it   *)
(* never reads, no handler is invoked, and the turn ends in the catch      *)
(* block.                                                                  *)
(***************************************************************************)
\* The response streamChat gets has a status outside 200..299, or no body.
ResponseFailed ==
  IF feed = "relay"
  THEN relayPc # "idle" /\ relayResponse.status \notin 200..299
  ELSE backendStatus \notin 200..299 \/ backendStatus \in {204, 205}

C16_FailsBeforeAnyHandler ==
  ResponseFailed =>
    /\ calls = <<>>
    /\ consumerPos = 0
    /\ turnPc \in {"idle", "fetching", "returned"}
    /\ turnPc = "returned" => threw

\* streamChat has thrown on a response with status 500 whose body is a delta
\* line.
C16_Witness ==
  /\ backendStatus = 500
  /\ payload = LDeltaA \o <<NL>>
  /\ turnPc = "returned"
  /\ threw
  /\ calls = <<>>

(***************************************************************************)
(* C17: for every text A longer than 100 characters, the content onDone    *)
(* computes for the accumulated text A + A is, before cleanLaTeX is        *)
(* applied, A without the white space at its ends.                         *)
(***************************************************************************)
Finalized == result.fn \in {"onDone", "MessageBubble"}

DoubledCall == call.fn = "onDone" /\ call.text = call.a \o call.a

C17_DoubledMessage ==
  (DoubledCall /\ Finalized /\ Len(call.a) > HalfLength) =>
    result.content = trim(call.a)

\* C17 as amended: for every text A that is longer than 100 characters
\* without the white space at its ends.
C17_DoubledMessageAmended ==
  (DoubledCall /\ Finalized /\ Len(trim(call.a)) > HalfLength) =>
    result.content = trim(call.a)

\* onDone has reduced A + A to A for an A of 101 characters between white
\* space.
C17_Witness ==
  /\ DoubledCall
  /\ result.fn = "onDone"
  /\ call.a = <<" ">> \o Filler(HalfLength + 1) \o <<"\n">>
  /\ result.content = Filler(HalfLength + 1)

(***************************************************************************)
(* C18: for all texts A and B, A longer than 3 characters and distinct     *)
(* from B (here: of a signature other than that of B), the content onDone  *)
(* computes for A, a blank line, B, a blank line, A holds the first A and  *)
(* the whole of B in this order and not the second A; in general a section *)
(* is kept the first time its signature is seen, and every later section   *)
(* with a signature seen before is dropped.                                *)
(***************************************************************************)
RepeatedCall ==
  /\ call.fn = "onDone"
  /\ call.text = call.a \o BlankLine \o call.b \o BlankLine \o call.a

\* The sections of a text, each without the white space at its ends.
TrimmedSections(t) ==
  LET sections == SelectSeq(splitSections(trim(t), 1), hasText)
  IN [i \in 1..Len(sections) |-> trim(sections[i])]

RECURSIVE KeepFirst(_, _)
\* The sections whose signature is not in seen and not that of an earlier
\* section.
KeepFirst(sections, seen) ==
  IF sections = <<>> THEN <<>>
  ELSE IF normalized(Head(sections)) \in seen
  THEN KeepFirst(Tail(sections), seen)
  ELSE <<Head(sections)>>
       \o KeepFirst(Tail(sections), seen \cup {normalized(Head(sections))})

C18_RepeatedParagraph ==
  (RepeatedCall /\ Finalized) =>
    /\ (Len(call.a) > 3 /\ normalized(call.a) # normalized(call.b)) =>
         TrimmedSections(result.content) = <<trim(call.a), trim(call.b)>>
    /\ TrimmedSections(result.content)
         = KeepFirst(TrimmedSections(call.text), {})

\* onDone has computed, for an A of 101 characters and B = abcd, the first
\* half of the text: A, a blank line and the first two characters of B.
C18_Failure ==
  /\ RepeatedCall
  /\ result.fn = "onDone"
  /\ call.a = Filler(HalfLength + 1)
  /\ call.b = <<"a", "b", "c", "d">>
  /\ result.content = Filler(HalfLength + 1) \o BlankLine \o <<"a", "b">>

(***************************************************************************)
(* C19: the similarity calculateSimilarity returns is at least 0 and at    *)
(* most 1, for every two strings.                                          *)
(***************************************************************************)
C19_SimilarityInUnitInterval ==
  result.fn = "calculateSimilarity" =>
    (0 <= result.num /\ result.num <= result.den)

\* calculateSimilarity has returned 6/5 for abcd abcd wxyz and wxyz abcd.
C19_Failure ==
  /\ call.a = <<"a", "b", "c", "d", " ", "a", "b", "c", "d", " ",
                "w", "x", "y", "z">>
  /\ call.b = <<"w", "x", "y", "z", " ", "a", "b", "c", "d">>
  /\ result.fn = "calculateSimilarity"
  /\ result.num = 6
  /\ result.den = 5

(***************************************************************************)
(* C20: cleanLaTeX is idempotent: what MessageBubble renders, cleanLaTeX   *)
(* of a content that cleanLaTeX returned, is that content.                 *)
(***************************************************************************)
C20_CleanLaTeXIdempotent ==
  result.fn = "MessageBubble" => result.rendered = result.text

\* cleanLaTeX has returned assistant:x for the text assistant:x after a
\* space, and MessageBubble has rendered x.
C20_Failure ==
  /\ call.fn = "cleanLaTeX"
  /\ call.text = <<" ">> \o RolePrefix \o <<"x">>
  /\ result.fn = "MessageBubble"
  /\ result.text = RolePrefix \o <<"x">>
  /\ result.rendered = <<"x">>

(***************************************************************************)
(* C21: cleanLaTeX replaces a formula in brackets, <<<formula>>>, by the   *)
(* formula without the white space at its ends, between $$ and $$ when it  *)
(* contains \frac, \sum, \bar, \times, \rightarrow or \cdot, an = sign     *)
(* and more than 15 characters, a line break, or more than 40 characters,  *)
(* and between $ and $ otherwise; the text around the formula is kept.     *)
(***************************************************************************)
Constructs ==
  {<<"f", "r", "a", "c">>, <<"s", "u", "m">>, <<"b", "a", "r">>,
   <<"t", "i", "m", "e", "s">>,
   <<"r", "i", "g", "h", "t", "a", "r", "r", "o", "w">>,
   <<"c", "d", "o", "t">>}

BlockByRule(c) ==
  \/ \E k \in Constructs : includes(c, <<Backslash>> \o k)
  \/ includes(c, <<"=">>) /\ Len(c) > EquationLength
  \/ includes(c, <<"\n">>)
  \/ Len(c) > InlineLength

Converted(c) ==
  IF BlockByRule(trim(c))
  THEN <<Dollar, Dollar>> \o trim(c) \o <<Dollar, Dollar>>
  ELSE <<Dollar>> \o trim(c) \o <<Dollar>>

FormulaCall == call.fn = "cleanLaTeX" /\ call.a # <<>>

C21_FormulaBracketConversion ==
  (FormulaCall /\ result.fn = "cleanLaTeX") =>
    \A pre \in Before, post \in After :
      call.text = pre \o Open \o call.a \o Close \o post =>
        result.text = trim(pre \o Converted(call.a) \o post)

\* cleanLaTeX has returned the text <<<a>b>>> as it was.
C21_Failure ==
  /\ FormulaCall
  /\ call.a = <<"a", ">", "b">>
  /\ call.text = Open \o call.a \o Close
  /\ result.fn = "cleanLaTeX"
  /\ result.text = call.text

(***************************************************************************)
(* C22: cleanLaTeX removes the role prefix, assistant: in either case with *)
(* the white space after it, at the start of the text and after every     *)
(* line break, and this rule changes nothing else: the result is the text  *)
(* without these prefixes (and without the white space at its ends).       *)
(***************************************************************************)
\* The positions of t taken by a role prefix at the start of the text or
\* right after a line break, and by the white space after it.
PrefixPositions(t) ==
  {k \in 1..Len(t) :
     \E i \in 1..k : /\ i = 1 \/ t[i - 1] = "\n"
                     /\ RolePrefixEnd(t, i) # 0
                     /\ k < RolePrefixEnd(t, i)}

WithoutRolePrefixes(t) ==
  LET kept == (1..Len(t)) \ PrefixPositions(t)
      nth(n) == CHOOSE k \in kept : Cardinality({x \in kept : x <= k}) = n
  IN [n \in 1..Cardinality(kept) |-> t[nth(n)]]

PrefixCall == call.fn = "cleanLaTeX" /\ call.text \in PrefixTexts

C22_RolePrefixStripped ==
  (PrefixCall /\ result.fn = "cleanLaTeX") =>
    result.text = trim(WithoutRolePrefixes(call.text))

\* cleanLaTeX has returned assistant:h for two lines, assistant: and
\* assistant:h.
C22_Failure ==
  /\ call.fn = "cleanLaTeX"
  /\ call.text = RolePrefix \o <<"\n">> \o RolePrefix \o <<"h">>
  /\ result.fn = "cleanLaTeX"
  /\ result.text = RolePrefix \o <<"h">>

(***************************************************************************)
(* C23: onToken strips the role prefix from the first fragment of a turn   *)
(* only: whenever token handlers have run and the turn is not yet done,    *)
(* the first fragment of the turn has replaced the message's content       *)
(* without its role prefix and every later fragment has been appended to   *)
(* the content as it is.                                                   *)
(***************************************************************************)
TurnContent == CHOOSE c \in TurnContents : TRUE

\* The calls made since this state.
NewCalls == SubSeq(calls', Len(calls) + 1, Len(calls'))

OnlyTokens(cs) == \A k \in DOMAIN cs : cs[k].h = "onToken"

C23_OnlyFirstFragmentStripped ==
  [][(Len(calls') > Len(calls) /\ OnlyTokens(calls') /\ ~threw') =>
       TurnContents' =
         {IF calls = <<>>
          THEN StripLeadingRolePrefix(FragmentsOf(<<Head(NewCalls)>>))
               \o FragmentsOf(Tail(NewCalls))
          ELSE TurnContent \o FragmentsOf(NewCalls)}]_vars

\* The fragments a and assistant:b have been handled and the message holds
\* ab.
C23_Failure ==
  /\ payload = LDeltaA \o <<NL>> \o LDeltaRole \o <<NL>>
  /\ Len(calls) = 2
  /\ calls[2] = Call("onToken", StrV("'assistant:b'"), UndefV)
  /\ TurnContents = {<<"a", "b">>}

(***************************************************************************)
(* C24: in a turn in which nothing but the token handler changes the       *)
(* store, after the k-th delta has been handled (k >= 1) the content of    *)
(* the assistant message is the first k fragments one after the other, the *)
(* first without its role prefix: the first fragment has replaced the      *)
(* waiting text and the later ones were appended.                          *)
(***************************************************************************)
Accumulated(cs) ==
  StripLeadingRolePrefix(FragmentsOf(<<Head(cs)>>)) \o FragmentsOf(Tail(cs))

C24_Accumulation ==
  (turnPc \in {"streaming", "returned"} /\ calls # <<>> /\ OnlyTokens(calls)
     /\ ~threw) =>
    TurnContents = {Accumulated(calls)}

\* Three fragments, a, assistant:b and a, have been handled and the message
\* holds aba.
C24_Failure ==
  /\ Len(calls) = 3
  /\ OnlyTokens(calls)
  /\ FragmentsOf(calls) = <<"a">> \o RolePrefix \o <<"b", "a">>
  /\ TurnContents = {<<"a", "b", "a">>}

(***************************************************************************)
(* C25: onDone keeps only the first half of the message if and only if     *)
(* both halves (split at the midpoint, without the white space at their    *)
(* ends) are longer than 100 characters and their similarity is greater    *)
(* than 0.8; then the paragraph check does not run, so sections repeated   *)
(* inside the first half stay; otherwise the paragraph check runs on the   *)
(* whole text.                                                             *)
(***************************************************************************)
FirstHalf(t) == trim(SubSeq(trim(t), 1, Len(trim(t)) \div 2))
SecondHalf(t) == trim(SubSeq(trim(t), Len(trim(t)) \div 2 + 1, Len(trim(t))))

HalvesAlike(t) ==
  /\ Len(FirstHalf(t)) > HalfLength
  /\ Len(SecondHalf(t)) > HalfLength
  /\ LET similarity == calculateSimilarity(FirstHalf(t), SecondHalf(t))
     IN 10 * similarity.num > 8 * similarity.den

\* The text after the paragraph check alone.
ParagraphChecked(t) ==
  LET sections == SelectSeq(splitSections(trim(t), 1), hasText)
      kept == KeepFirst(sections, {})
  IN IF Len(kept) < Len(sections) THEN join(kept) ELSE trim(t)

FirstCharacters(t) ==
  SubSeq(t, 1, IF Len(t) < SignatureLength THEN Len(t) ELSE SignatureLength)

CollapsedThenCut(section) ==
  FirstCharacters(collapseSpace(toLowerCase(trim(section))))

CutThenCollapsed(section) ==
  collapseSpace(FirstCharacters(toLowerCase(trim(section))))

C26_SectionSignature ==
  result.fn = "normalized" =>
    /\ result.content = CollapsedThenCut(call.a)
    /\ result.text = CollapsedThenCut(call.b)
    /\ result.content = result.text
         <=> CollapsedThenCut(call.a) = CollapsedThenCut(call.b)

\* C26 as amended: the signature is the section in lower case, cut to its
\* first 150 characters, then its white space collapsed to single spaces;
\* two sections have the same signature exactly when the first 150
\* characters of their lower-case texts agree once white space is collapsed.
C26_SectionSignatureAmended ==
  result.fn = "normalized" =>
    /\ result.content = CutThenCollapsed(call.a)
    /\ result.text = CutThenCollapsed(call.b)
    /\ result.content = result.text
         <=> CutThenCollapsed(call.a) = CutThenCollapsed(call.b)

\* Two sections that differ in their character 151 and hold a double space
\* have been given the same signature, of 149 characters.
C26_Witness ==
  /\ result.fn = "normalized"
  /\ call.a = <<"a", "b", " ", " ">> \o ShortFiller(SignatureLength - 4)
                \o <<"x">>
  /\ call.b = <<"a", "b", " ", " ">> \o ShortFiller(SignatureLength - 4)
                \o <<"y">>
  /\ result.content = result.text
  /\ Len(result.content) = SignatureLength - 1
  /\ CollapsedThenCut(call.a) # CollapsedThenCut(call.b)

(***************************************************************************)
(* C27: in the text cleanLaTeX returns, no formula opened by $$ is closed  *)
(* by a single $ or left without a closing delimiter, and no formula       *)
(* opened by a single $ is closed by $$, whatever the input, also when a   *)
(* well-formed block formula is followed by an inline formula.  The        *)
(* delimiters of a text are its runs of dollar signs, the first opening a  *)
(* formula, the second closing it, and so on; a text with a run of three   *)
(* or more dollar signs is not judged.                                     *)
(***************************************************************************)
\* The lengths of the runs of dollar signs of t, from left to right.
DollarRuns(t) ==
  LET starts == {i \in 1..Len(t) :
                   t[i] = Dollar /\ (i = 1 \/ t[i - 1] # Dollar)}
      nth(n) == CHOOSE i \in starts : Cardinality({x \in starts : x <= i}) = n
      end(i) == Min({j \in i..(Len(t) + 1) : j = Len(t) + 1 \/ t[j] # Dollar})
  IN [n \in 1..Cardinality(starts) |-> end(nth(n)) - nth(n)]

Paired(t) ==
  LET runs == DollarRuns(t) IN
  (\A n \in DOMAIN runs : runs[n] <= 2) =>
    \A n \in DOMAIN runs :
      n % 2 = 1 =>
        /\ runs[n] = 2 => (n < Len(runs) /\ runs[n + 1] = 2)
        /\ (runs[n] = 1 /\ n < Len(runs)) => runs[n + 1] = 1

C27_DelimitersRepaired == result.fn = "cleanLaTeX" => Paired(result.text)

\* cleanLaTeX has returned, for a block formula followed by an inline one,
\* both well-formed, the inline formula opened by $$ and closed by $.
C27_Failure ==
  /\ call.fn = "cleanLaTeX"
  /\ call.text = <<Dollar, Dollar, "a", "b", Dollar, Dollar, " ", "w", " ",
                   Dollar, "c", Dollar>>
  /\ Paired(call.text)
  /\ result.fn = "cleanLaTeX"
  /\ result.text = <<Dollar, Dollar, "a", "b", Dollar, Dollar, " ", "w", " ",
                     Dollar, Dollar, "c", Dollar>>

(***************************************************************************)
(* C28: cleanLaTeX removes a single $ inside a block formula: for the text *)
(* $$a$b$$ it returns $$ab$$.                                              *)
(***************************************************************************)
NestedText == <<Dollar, Dollar, "a", Dollar, "b", Dollar, Dollar>>

C28_NestedDelimiterCollapsed ==
  (call.fn = "cleanLaTeX" /\ call.text = NestedText
     /\ result.fn = "cleanLaTeX") =>
    result.text = <<Dollar, Dollar, "a", "b", Dollar, Dollar>>

\* cleanLaTeX has returned $a$b$$$ for $$a$b$$: Pattern 1 had closed $$a$
\* before Step 3 ran.
C28_Failure ==
  /\ call.fn = "cleanLaTeX"
  /\ call.text = NestedText
  /\ result.fn = "cleanLaTeX"
  /\ result.content = <<Dollar, Dollar, "a", Dollar, Dollar, "b",
                        Dollar, Dollar, Dollar, Dollar>>
  /\ result.text = <<Dollar, "a", Dollar, "b", Dollar, Dollar, Dollar>>

(***************************************************************************)
(* C29: cleanLaTeX returns for every text, and its while loop ends: an     *)
(* iteration leaves the loop, or it examines a delimiter at or after the   *)
(* search position and moves the search position past that delimiter and  *)
(* past a closing pair it has inserted, never beyond the position after    *)
(* the end of the text, the distance from the search position to the end   *)
(* of the text getting smaller.                                            *)
(***************************************************************************)
C29_ScanAdvances ==
  [][result.fn = "scan" =>
       \/ result'.fn = "scanned"
       \/ /\ result'.fn = "scan"
          /\ result'.dollarIndex >= result.searchFrom
          /\ result'.searchFrom > result'.dollarIndex + 1
          /\ result'.inserted # 0 =>
               result'.searchFrom > result'.inserted + 1
          /\ result'.searchFrom <= Len(result'.text) + 1
          /\ Len(result'.text) - result'.searchFrom
               < Len(result.text) - result.searchFrom]_vars

\* The loop has closed the formula of $$ab w and goes on after the pair it
\* inserted.
C29_Witness ==
  /\ call.text = <<Dollar, Dollar, "a", "b", " ", "w", " ">>
  /\ result.fn = "scan"
  /\ result.text = <<Dollar, Dollar, "a", "b", Dollar, Dollar, " ", "w", " ">>
  /\ result.dollarIndex = 1
  /\ result.inserted = 5
  /\ result.searchFrom = 7

(***************************************************************************)
(* C30: streamChat and the relay reassemble lines alike: given the same    *)
(* bytes, delta and done events one per line, the last line with or        *)
(* without a line separator after it, streamChat has called, when it       *)
(* returns, one handler for each event the relay has written, in the same  *)
(* order.                                                                  *)
(***************************************************************************)
EventTexts == {textOf(LDeltaA), textOf(LDeltaE), textOf(LDone)}

\* Every line of the payload is an event; the last line may lack its
\* separator.
EventStream(p) ==
  LET lines == split(textOf(p)) IN
  /\ \A k \in 1..(Len(lines) - 1) : lines[k] \in EventTexts
  /\ Last(lines) \in EventTexts \cup {<<>>}

\* The handler calls for the events written in bytes, one per line.
CallsFor(bytes) ==
  LET lines == completeLines(bytes) IN
  [k \in 1..Len(lines) |->
     IF TypeOf(lines[k]) = StrV("'delta'")
     THEN Call("onToken", Get(JSONparse(lines[k]).val, "'token'"), UndefV)
     ELSE Call("onDone", JSONparse(lines[k]).val, UndefV)]

BothEnded == feed = "tee" /\ relayPc = "closed" /\ turnPc = "returned"

C30_SameLineReassembly ==
  (EventStream(payload) /\ BothEnded) => calls = CallsFor(out)

\* Of a delta line and a done line without a line separator after it the
\* relay has written both events, and streamChat has returned after the
\* token handler alone.
C30_Failure ==
  /\ payload = LDeltaA \o <<NL>> \o LDone
  /\ BothEnded
  /\ Len(CallsFor(out)) = 2
  /\ calls = <<Call("onToken", StrV("'a'"), UndefV)>>

====
